---- MODULE Spec2Model ----
(***************************************************************************)
(* Model of the DataSpeak text-to-SQL agent core:                          *)
(*   - the SQL sanitizer (ai/sanitizer/validator.rs),                      *)
(*   - the Refiner's bounded self-correction loop (ai/agent/refiner.rs),   *)
(*   - the fixed MAC-SQL pipeline (ai/agent/mac_sql.rs, decomposer.rs),    *)
(*   - the tool-calling loop (ai/agent/react_agent.rs, execute_sql.rs).    *)
(*                                                                         *)
(* SQL text is a sequence of tokens.  A token is a run of characters of    *)
(* one class (a word, one digit, one white-space or punctuation           *)
(* character), so a word boundary of the regex engine falls exactly       *)
(* between a word token and a non-word token or a string end.             *)
(***************************************************************************)
EXTENDS Integers, Sequences, FiniteSets, TLC

(***************************************************************************)
(* Text                                                                    *)
(***************************************************************************)

\* white space as matched by \s and removed by str::trim
SpaceToks == {" ", "\n"}

\* punctuation: characters that are not word characters
\* "FENCE" stands for the three back-ticks of a code fence
PunctToks == {";", "-", "/", "*", "FENCE"}

DigitToks == {"0", "1", "2", "3", "4", "5", "6", "7", "8", "9"}

IsSpace(t) == t \in SpaceToks

IsDigit(t) == t \in DigitToks

\* \w of the regex crate: letters, digits and the underscore
IsWordTok(t) == t \notin (SpaceToks \cup PunctToks)

\* str::to_uppercase on a token
ToUpper(t) ==
    CASE t = "select"   -> "SELECT"
      [] t = "Select"   -> "SELECT"
      [] t = "insert"   -> "INSERT"
      [] t = "update"   -> "UPDATE"
      [] t = "delete"   -> "DELETE"
      [] t = "drop"     -> "DROP"
      [] t = "Drop"     -> "DROP"
      [] t = "alter"    -> "ALTER"
      [] t = "create"   -> "CREATE"
      [] t = "truncate" -> "TRUNCATE"
      [] t = "replace"  -> "REPLACE"
      [] t = "grant"    -> "GRANT"
      [] t = "revoke"   -> "REVOKE"
      [] t = "union"    -> "UNION"
      [] t = "Union"    -> "UNION"
      [] t = "limit"    -> "LIMIT"
      [] t = "x"        -> "X"
      [] t = "pg_"      -> "PG_"
      [] t = "pgcrypto" -> "PGCRYPTO"
      [] t = "load_file" -> "LOAD_FILE"
      [] t = "into"     -> "INTO"
      [] t = "outfile"  -> "OUTFILE"
      [] t = "Into"     -> "INTO"
      [] t = "Outfile"  -> "OUTFILE"
      [] OTHER          -> t

\* the value of one decimal digit
DigitVal(t) ==
    CASE t = "0" -> 0 [] t = "1" -> 1 [] t = "2" -> 2 [] t = "3" -> 3
      [] t = "4" -> 4 [] t = "5" -> 5 [] t = "6" -> 6 [] t = "7" -> 7
      [] t = "8" -> 8 [] t = "9" -> 9

\* str::trim: drop leading and trailing white space
Trim(s) ==
    IF \A i \in 1..Len(s) : IsSpace(s[i])
    THEN << >>
    ELSE LET first == CHOOSE i \in 1..Len(s) :
                        ~IsSpace(s[i]) /\ \A j \in 1..(i-1) : IsSpace(s[j])
             last  == CHOOSE i \in 1..Len(s) :
                        ~IsSpace(s[i]) /\ \A j \in (i+1)..Len(s) : IsSpace(s[j])
         IN SubSeq(s, first, last)

\* \b before token i / after token i, for a word token at i
BoundaryBefore(s, i) == i = 1 \/ ~IsWordTok(s[i-1])

BoundaryAfter(s, i) == i = Len(s) \/ ~IsWordTok(s[i+1])

\* `.` of the regex crate matches every character but the line feed
NoNewline(s, i, j) == \A k \in i..j : s[k] # "\n"

\* the position after the white-space run that starts at i (\s*)
RECURSIVE SkipSpace(_, _)
SkipSpace(s, i) ==
    IF i <= Len(s) /\ IsSpace(s[i]) THEN SkipSpace(s, i + 1) ELSE i

\* the last position of the digit run that starts at i (\d+ is greedy); i-1 if none
RECURSIVE DigitsEnd(_, _)
DigitsEnd(s, i) ==
    IF i <= Len(s) /\ IsDigit(s[i]) THEN DigitsEnd(s, i + 1) ELSE i - 1

(***************************************************************************)
(* Decimal numbers: a digit run is kept as text, because the value of a    *)
(* LIMIT may exceed the range of an i32.                                   *)
(***************************************************************************)

RECURSIVE StripZeros(_)
StripZeros(d) ==
    IF Len(d) > 1 /\ d[1] = "0" THEN StripZeros(Tail(d)) ELSE d

\* i32::MAX = 2147483647
I32MaxDigits == <<"2", "1", "4", "7", "4", "8", "3", "6", "4", "7">>

\* a <= b for two digit runs of the same length
RECURSIVE DecLeq(_, _)
DecLeq(a, b) ==
    IF Len(a) = 0 THEN TRUE
    ELSE IF DigitVal(a[1]) < DigitVal(b[1]) THEN TRUE
    ELSE IF DigitVal(a[1]) > DigitVal(b[1]) THEN FALSE
    ELSE DecLeq(Tail(a), Tail(b))

\* str::parse::<i32> succeeds on a digit run iff its value fits an i32
ParseI32Ok(d) ==
    LET z == StripZeros(d)
    IN Len(z) < Len(I32MaxDigits)
       \/ (Len(z) = Len(I32MaxDigits) /\ DecLeq(z, I32MaxDigits))

\* the value of a digit run that fits an i32
RECURSIVE DecValue(_, _)
DecValue(d, acc) ==
    IF Len(d) = 0 THEN acc ELSE DecValue(Tail(d), acc * 10 + DigitVal(d[1]))

ParseI32(d) == DecValue(StripZeros(d), 0)

(***************************************************************************)
(* ai/sanitizer/validator.rs                                               *)
(***************************************************************************)

DmlWords ==
    {"INSERT", "UPDATE", "DELETE", "DROP", "ALTER", "CREATE", "TRUNCATE",
     "REPLACE", "GRANT", "REVOKE"}

StackedWords ==
    {"SELECT", "INSERT", "UPDATE", "DELETE", "DROP", "ALTER", "CREATE"}

MaxLimitDigits == <<"1", "0", "0">>

\* rule 1 written without the (?i) flag
DenyDmlCaseSensitive(s) ==
    \E i \in 1..Len(s) :
        /\ s[i] \in DmlWords
        /\ BoundaryBefore(s, i)
        /\ BoundaryAfter(s, i)

\* rule 1: (?i)\b(INSERT|UPDATE|...|REVOKE)\b
DenyDml(s) ==
    \E i \in 1..Len(s) :
        /\ ToUpper(s[i]) \in DmlWords
        /\ BoundaryBefore(s, i)
        /\ BoundaryAfter(s, i)

\* rule 2: ;.*;
DenyMultiple(s) ==
    \E i \in 1..Len(s) : \E j \in (i+1)..Len(s) :
        s[i] = ";" /\ s[j] = ";" /\ NoNewline(s, i + 1, j - 1)

\* rule 3: --
DenyLineComment(s) ==
    \E i \in 1..(Len(s) - 1) : s[i] = "-" /\ s[i+1] = "-"

\* rule 4: /\*
DenyBlockComment(s) ==
    \E i \in 1..(Len(s) - 1) : s[i] = "/" /\ s[i+1] = "*"

\* rule 5: (?i)\bUNION\b.*\bSELECT\b
DenyUnion(s) ==
    \E i \in 1..Len(s) : \E j \in (i+1)..Len(s) :
        /\ ToUpper(s[i]) = "UNION"
        /\ BoundaryBefore(s, i) /\ BoundaryAfter(s, i)
        /\ ToUpper(s[j]) = "SELECT"
        /\ BoundaryBefore(s, j) /\ BoundaryAfter(s, j)
        /\ NoNewline(s, i + 1, j - 1)

\* rule 6: ;\s*(SELECT|INSERT|UPDATE|DELETE|DROP|ALTER|CREATE), case-sensitive
DenyStacked(s) ==
    \E i \in 1..Len(s) :
        /\ s[i] = ";"
        /\ LET k == SkipSpace(s, i + 1)
           IN k <= Len(s) /\ s[k] \in StackedWords

\* DENY_PATTERNS[k-1].is_match(s)
DenyRule(k, s) ==
    CASE k = 1 -> DenyDml(s)
      [] k = 2 -> DenyMultiple(s)
      [] k = 3 -> DenyLineComment(s)
      [] k = 4 -> DenyBlockComment(s)
      [] k = 5 -> DenyUnion(s)
      [] k = 6 -> DenyStacked(s)

DENY_PATTERNS == 1..6

\* a match of LIMIT\s+\d+ that starts at token i (without the leading \b)
LimitMatchAt(s, i) ==
    /\ ToUpper(s[i]) = "LIMIT"
    /\ i < Len(s) /\ IsSpace(s[i+1])
    /\ LET k == SkipSpace(s, i + 1)
       IN k <= Len(s) /\ IsDigit(s[k])

\* HAS_LIMIT_RE: (?i)\bLIMIT\s+\d+
HAS_LIMIT_RE(s) ==
    \E i \in 1..Len(s) : BoundaryBefore(s, i) /\ LimitMatchAt(s, i)

\* the leftmost match of (?i)LIMIT\s+(\d+): where it starts, 0 if there is none
FirstLimit(s) ==
    IF \E i \in 1..Len(s) : LimitMatchAt(s, i)
    THEN CHOOSE i \in 1..Len(s) :
            LimitMatchAt(s, i) /\ \A j \in 1..(i-1) : ~LimitMatchAt(s, j)
    ELSE 0

\* the digits captured by a match that starts at i, and where the match ends
LimitDigitsFrom(s, i) == SkipSpace(s, i + 1)

LimitEnd(s, i) == DigitsEnd(s, LimitDigitsFrom(s, i))

LimitDigits(s, i) == SubSeq(s, LimitDigitsFrom(s, i), LimitEnd(s, i))

\* Regex::replace: the leftmost match is replaced by "LIMIT 100", the rest is kept
ReplaceFirstLimit(s) ==
    LET i == FirstLimit(s)
    IN SubSeq(s, 1, i - 1) \o <<"LIMIT", " ">> \o MaxLimitDigits
       \o SubSeq(s, LimitEnd(s, i) + 1, Len(s))

\* the while loop that pops trailing semicolons
RECURSIVE StripSemicolons(_)
StripSemicolons(s) ==
    IF Len(s) > 0 /\ s[Len(s)] = ";"
    THEN StripSemicolons(SubSeq(s, 1, Len(s) - 1))
    ELSE s

\* the LIMIT step of validate_sql on the statement without trailing semicolons
EnsureLimit(s) ==
    IF ~HAS_LIMIT_RE(s)
    THEN s \o <<" ", "LIMIT", " ">> \o MaxLimitDigits
    ELSE LET i == FirstLimit(s)
         IN IF i # 0
               /\ ParseI32Ok(LimitDigits(s, i))
               /\ ParseI32(LimitDigits(s, i)) > ParseI32(MaxLimitDigits)
            THEN ReplaceFirstLimit(s)
            ELSE s

SqlOk(s) == [ok |-> TRUE, sql |-> s, err |-> ""]

SqlErr(e) == [ok |-> FALSE, sql |-> << >>, err |-> e]

RuleError(k) ==
    CASE k = 1 -> "Forbidden SQL pattern detected (rule 1)"
      [] k = 2 -> "Forbidden SQL pattern detected (rule 2)"
      [] k = 3 -> "Forbidden SQL pattern detected (rule 3)"
      [] k = 4 -> "Forbidden SQL pattern detected (rule 4)"
      [] k = 5 -> "Forbidden SQL pattern detected (rule 5)"
      [] k = 6 -> "Forbidden SQL pattern detected (rule 6)"

\* pub fn validate_sql(query: &str) -> AppResult<String>
validate_sql(query) ==
    LET trimmed == Trim(query)
    IN IF Len(trimmed) = 0
       THEN SqlErr("Empty query")
       ELSE IF ToUpper(trimmed[1]) # "SELECT"
       THEN SqlErr("Only SELECT queries are allowed for AI agent")
       ELSE IF \E k \in DENY_PATTERNS : DenyRule(k, trimmed)
       THEN SqlErr(RuleError(CHOOSE k \in DENY_PATTERNS :
                        DenyRule(k, trimmed)
                        /\ \A m \in 1..(k-1) : ~DenyRule(m, trimmed)))
       ELSE SqlOk(EnsureLimit(StripSemicolons(trimmed)))

\* str::contains for a pattern that is a sequence of tokens
Contains(s, pat) ==
    \E i \in 1..(Len(s) - Len(pat) + 1) :
        SubSeq(s, i, i + Len(pat) - 1) = pat

\* pub fn validate_for_db_type(query: &str, db_type: &str) -> AppResult<()>
validate_for_db_type(query, db_type) ==
    IF db_type = "postgres"
    THEN IF Contains(query, <<"pg_">>) \/ Contains(query, <<"pgcrypto">>)
         THEN SqlErr("PostgreSQL system functions not allowed")
         ELSE SqlOk(query)
    ELSE IF db_type \in {"mysql", "mariadb"}
    THEN IF Contains(query, <<"LOAD_FILE">>)
            \/ Contains(query, <<"INTO", " ", "OUTFILE">>)
         THEN SqlErr("File operations not allowed")
         ELSE SqlOk(query)
    ELSE SqlOk(query)

(***************************************************************************)
(* db/query.rs: the statement execute_query runs                           *)
(***************************************************************************)

\* i32 Display: the decimal digits of a number
RECURSIVE ToDigits(_)
ToDigits(n) ==
    LET d == <<"0", "1", "2", "3", "4", "5", "6", "7", "8", "9">>[(n % 10) + 1]
    IN IF n < 10 THEN <<d>> ELSE ToDigits(n \div 10) \o <<d>>

\* query.trim_end_matches(';')
RECURSIVE trim_end_matches(_)
trim_end_matches(s) ==
    IF Len(s) > 0 /\ s[Len(s)] = ";"
    THEN trim_end_matches(SubSeq(s, 1, Len(s) - 1))
    ELSE s

\* query.rs: paginated_query, the text execute_query runs
paginated_query(query, limit, offset) ==
    IF \E i \in 1..Len(query) : ToUpper(query[i]) = "LIMIT"
    THEN trim_end_matches(query)
    ELSE trim_end_matches(query)
            \o <<" ", "LIMIT", " ">> \o ToDigits(limit)
            \o <<" ", "OFFSET", " ">> \o ToDigits(offset)

(***************************************************************************)
(* execute_sql.rs: execute_sql_tool                                        *)
(***************************************************************************)

\* a check that looks at dry_run before the sanitizer has seen the query
ToolCheckDryFirst(query, dry_run, db_type) ==
    IF dry_run THEN [kind |-> "dry", sql |-> query, err |-> ""]
    ELSE LET sanitized_query == validate_sql(query)
         IN IF ~sanitized_query.ok
            THEN [kind |-> "err", sql |-> << >>, err |-> sanitized_query.err]
            ELSE IF ~validate_for_db_type(sanitized_query.sql, db_type).ok
            THEN [kind |-> "err", sql |-> << >>,
                  err |-> validate_for_db_type(sanitized_query.sql, db_type).err]
            ELSE [kind |-> "exec", sql |-> sanitized_query.sql, err |-> ""]

\* execute_sql_tool down to the call of execute_query: Err of the sanitizer,
\* the dry-run observation, or the text handed to execute_query; the
\* connection of the run is registered, so get_connection returns it, and
\* dry_run is the field execute_sql.rs reads from the Tool value
ToolCheck(query, dry_run, db_type) ==
    LET sanitized_query == validate_sql(query)
    IN IF ~sanitized_query.ok
       THEN [kind |-> "err", sql |-> << >>, err |-> sanitized_query.err]
       ELSE IF ~validate_for_db_type(sanitized_query.sql, db_type).ok
       THEN [kind |-> "err", sql |-> << >>,
             err |-> validate_for_db_type(sanitized_query.sql, db_type).err]
       ELSE IF dry_run
       THEN [kind |-> "dry", sql |-> sanitized_query.sql, err |-> ""]
       ELSE [kind |-> "exec", sql |-> sanitized_query.sql, err |-> ""]

(***************************************************************************)
(* State                                                                   *)
(***************************************************************************)

VARIABLES
    sanIn,            \* the text handed to validate_sql
    sanOut,           \* what validate_sql returned for it
    sanPc,            \* "start" before the call, "done" after it, "again"
                      \* after a second call on the text the first returned,
                      \* "checked" after validate_for_db_type, "executed"
                      \* after execute_query
    sanDb,            \* the db_type handed to validate_for_db_type
    sanDial,          \* what validate_for_db_type returned for the sanitized text
    sanExec,          \* the statement execute_query runs for the sanitized text
    sanTool,          \* what execute_sql_tool returned for the text
    selSchema,        \* the full_schema handed to parse_selection_response
    selResponse,      \* the response handed to parse_selection_response
    selOut,           \* what parse_selection_response returned for them
    selPc,            \* "start" before the call, "done" after it
    histIn,           \* the conversation history handed to the fixed pipeline
    histOut,          \* what the prompt under construction holds of it
    histPc,           \* "start", then "decomposer" or "general"
    poolCall,         \* connection.rs: which get_pool_* each caller calls
    poolPc,           \* where each caller stands in it
    poolLocal,        \* the pool the caller opened (its local `pool`)
    poolRet,          \* what the call returned to the caller
    pools,            \* postgres_pools and mysql_pools at the connection id
    poolConn,         \* whether connections holds the connection id
    chatFile,         \* lib.rs: the messages of the session's file on disk
    chatTask,         \* the tasks stream_ai_chat spawned for the session
    strategy,         \* "mac" (run_mac_sql_agent), "react" (run_react_agent)
    dbType,           \* the dialect of the connection
    pc,               \* where the run of the orchestrator stands
    events,           \* the events delivered to the progress sink, in order
    outcome,          \* what the run returned to its caller
    llmReq,           \* the request in flight to the text-generation service
    dbReq,            \* the request in flight to query::execute_query
    plan,             \* DecomposerResult.queries
    idx,              \* the index of the sub-query in the for loop
    all_sql,          \* mac_sql.rs: all_sql
    all_results,      \* mac_sql.rs: all_results
    refiner_results,  \* mac_sql.rs: refiner_results
    current_sql,      \* refiner.rs: current_sql
    history,          \* refiner.rs: history
    attempts,         \* refiner.rs: attempts
    rpc,              \* where refine_and_execute stands
    refRet,           \* what refine_and_execute returned
    messages,         \* react_agent.rs: messages
    iterations,       \* react_agent.rs: iterations
    sql_queries,      \* react_agent.rs: sql_queries
    pending,          \* the tool calls of the response not yet processed
    execution_attempts,   \* refiner.rs: the calls of try_execute of the run
    correction_requests   \* refiner.rs: the calls of generate_corrected_sql

sanVars == <<sanIn, sanOut, sanPc, sanDb, sanDial, sanExec, sanTool>>

selVars == <<selSchema, selResponse, selOut, selPc>>

histVars == <<histIn, histOut, histPc>>

poolVars == <<poolCall, poolPc, poolLocal, poolRet, pools, poolConn>>

\* the state of the functions that are examined on their own
chatVars == <<chatFile, chatTask>>

pureVars == <<sanVars, selVars, histVars, poolVars, chatVars>>

runVars == <<strategy, dbType, pc, events, outcome, llmReq, dbReq>>

macVars == <<plan, idx, all_sql, all_results, refiner_results>>

\* the work the Refiner has done in the run, over all its sub-queries
countVars == <<execution_attempts, correction_requests>>

refinerVars == <<current_sql, history, attempts, rpc, refRet, countVars>>

reactVars == <<messages, iterations, sql_queries, pending>>

agentVars == <<runVars, macVars, refinerVars, reactVars>>

vars == <<pureVars, agentVars>>

None == [ok |-> FALSE, sql |-> << >>, err |-> "none"]

(***************************************************************************)
(* Values shared by the orchestrators                                      *)
(***************************************************************************)

\* refiner.rs: max_attempts
max_attempts == 3

\* react_agent.rs: max_iterations
max_iterations == 5

\* the row cap and the offset handed to query::execute_query
MaxRows == 100

ZeroOffset == 0

DbTypes == {"postgres", "mysql", "mariadb"}

\* an AppError: its message, and for the Refiner's final error the attempt
\* count and the text of the last error
NoError == [msg |-> "", attempts |-> 0, last |-> ""]

AppError(m) == [msg |-> m, attempts |-> 0, last |-> ""]

SecurityError(m) == AppError(m)

\* "Query refinement failed after {} attempts. Last error: {}"
RefinementFailed(n, e) ==
    [msg |-> "Query refinement failed", attempts |-> n, last |-> e.msg]

\* "Query refinement exhausted {} attempts"
RefinementExhausted(n) ==
    [msg |-> "Query refinement exhausted", attempts |-> n, last |-> ""]

\* a request to execute_query, and no request
NoDbReq == [sql |-> << >>, limit |-> -1, offset |-> -1]

DbRequest(s) == [sql |-> s, limit |-> MaxRows, offset |-> ZeroOffset]

\* a request to the text-generation service, and no request
NoLlmReq ==
    [kind |-> "none", failed_sql |-> << >>, error |-> NoError, history |-> << >>,
     parallel_tool_calls |-> "None"]

LlmRequest(k) ==
    [kind |-> k, failed_sql |-> << >>, error |-> NoError, history |-> << >>,
     parallel_tool_calls |-> IF k = "tools" THEN "Some(false)" ELSE "None"]

\* a QueryResult: the statement that produced it stands for its rows
QueryResult(s) == [executed |-> s]

NoResult == [executed |-> << >>]

\* what refine_and_execute returns
NoReturn ==
    [kind |-> "none", final_sql |-> << >>, result |-> NoResult, attempts |-> 0,
     error |-> NoError]

RefinerOk(s, r, n) ==
    [kind |-> "ok", final_sql |-> s, result |-> r, attempts |-> n, error |-> NoError]

RefinerErr(e) ==
    [kind |-> "err", final_sql |-> << >>, result |-> NoResult, attempts |-> 0,
     error |-> e]

\* an answer text: what it is made of
Answer(type, e, s, rs) == [type |-> type, error |-> e, sql |-> s, results |-> rs]

\* what a run returns: Ok(AgentResponse) or Err(AppError)
NoOutcome ==
    [kind |-> "none", answer |-> Answer("", NoError, << >>, << >>),
     sql_queries |-> << >>, iterations |-> 0, error |-> NoError]

AgentResponse(a, qs, n) ==
    [kind |-> "ok", answer |-> a, sql_queries |-> qs, iterations |-> n,
     error |-> NoError]

RunError(e) ==
    [kind |-> "err", answer |-> Answer("", NoError, << >>, << >>),
     sql_queries |-> << >>, iterations |-> 0, error |-> e]

\* an event for the progress sink
Event(type, tag, i) == [type |-> type, tag |-> tag, idx |-> i]

\* the state of the orchestrators while the sanitizer alone is examined
AgentIdle ==
    /\ strategy = "none"
    /\ dbType = "postgres"
    /\ pc = "idle"
    /\ events = << >>
    /\ outcome = NoOutcome
    /\ llmReq = NoLlmReq
    /\ dbReq = NoDbReq
    /\ plan = << >>
    /\ idx = 0
    /\ all_sql = << >>
    /\ all_results = << >>
    /\ refiner_results = << >>
    /\ current_sql = << >>
    /\ history = << >>
    /\ attempts = 0
    /\ rpc = "idle"
    /\ refRet = NoReturn
    /\ messages = << >>
    /\ iterations = 0
    /\ sql_queries = << >>
    /\ pending = << >>
    /\ execution_attempts = 0
    /\ correction_requests = 0

\* what parse_selection_response returns, and its value before the call
NoSelection ==
    [ok |-> FALSE, pruned_schema |-> << >>, selected_tables |-> << >>,
     err |-> "none"]

\* what execute_sql_tool returns and does: Err(err), or Ok(ToolResult) with
\* the observation made of sql; executed is the statement execute_query ran,
\* data tells whether ToolResult.data is Some
NoToolResult ==
    [kind |-> "none", dry_run |-> FALSE, sql |-> << >>, err |-> "",
     executed |-> << >>, data |-> FALSE]

\* the state of the sanitizer and of the Selector while they are not examined
SanIdle ==
    /\ sanIn = << >>
    /\ sanOut = None
    /\ sanPc = "idle"
    /\ sanDb = "none"
    /\ sanDial = None
    /\ sanExec = << >>
    /\ sanTool = NoToolResult

SelIdle ==
    /\ selSchema = << >>
    /\ selResponse = [kind |-> "none", tables |-> << >>]
    /\ selOut = NoSelection
    /\ selPc = "idle"

\* no prompt is under construction
NoPrompt == [header |-> FALSE, entries |-> << >>]

HistIdle ==
    /\ histIn = << >>
    /\ histOut = NoPrompt
    /\ histPc = "idle"

\* no caller asks for a pool
PoolIdle ==
    /\ poolCall = << >>
    /\ poolPc = << >>
    /\ poolLocal = << >>
    /\ poolRet = << >>
    /\ pools = << >>
    /\ poolConn = FALSE

\* no chat request is running
ChatIdle ==
    /\ chatFile = << >>
    /\ chatTask = << >>

(***************************************************************************)
(* Inputs of the sanitizer                                                 *)
(***************************************************************************)

\* longest padding before and after the word of a keyword input
MaxPad == 1

\* longest body of a semicolon input
MaxSemiLen == 4

\* most phrases in the body of a LIMIT input
MaxLimitPhrases == 4

SeqsUpTo(A, n) == UNION {[1..k -> A] : k \in 0..n}

RECURSIVE Flat(_)
Flat(ps) == IF Len(ps) = 0 THEN << >> ELSE Head(ps) \o Flat(Tail(ps))

Heads == {<<"SELECT">>, <<"select">>}

LowerDmlWords ==
    {"insert", "update", "delete", "drop", "alter", "create", "truncate",
     "replace", "grant", "revoke"}

PadToks == {" ", "x", "-", "/", "*"}

\* SELECT, padding, one word or comment character, padding
KeywordInputs ==
    {h \o pre \o <<m>> \o post :
        h \in Heads,
        pre \in SeqsUpTo(PadToks, MaxPad),
        m \in DmlWords \cup LowerDmlWords \cup {"Drop", "x", "-", "*"},
        post \in SeqsUpTo(PadToks, MaxPad)}

SemiToks == {";", " ", "\n", "x", "SELECT", "select"}

\* SELECT followed by semicolons, white space and further statements
SemicolonInputs ==
    {h \o b : h \in Heads, b \in SeqsUpTo(SemiToks, MaxSemiLen)}

Num5 == <<"5">>

Num100 == <<"1", "0", "0">>

Num101 == <<"1", "0", "1">>

\* a row count beyond i32::MAX
NumBig == <<"3", "0", "0", "0", "0", "0", "0", "0", "0", "0">>

LimitPhrases ==
    {<<" ", "LIMIT", " ">>, <<" ", "limit", "\n">>, <<"x">>, <<";">>,
     Num5, Num100, Num101, NumBig}

\* SELECT followed by LIMIT clauses, numbers and other text
LimitInputs ==
    {h \o Flat(ps) : h \in Heads, ps \in SeqsUpTo(LimitPhrases, MaxLimitPhrases)}

\* empty text, text that is not a SELECT, text with white space around it
OtherInputs ==
    {<< >>, <<" ">>, <<"x">>, <<"DROP", " ", "x">>, <<" ", "SELECT", " ", "x", "\n">>,
     <<"\n", "select", " ", "x", ";", " ">>, <<"SELECT", "x">>}

\* the names validate_for_db_type looks for, in upper and in lower case
DialectWords ==
    { <<"pg_">>, <<"PG_">>, <<"pgcrypto">>, <<"PGCRYPTO">>,
      <<"LOAD_FILE">>, <<"load_file">>,
      <<"INTO", " ", "OUTFILE">>, <<"into", " ", "outfile">>,
      <<"Into", " ", "Outfile">>, <<"x">> }

\* SELECT, padding, one of these names, padding
DialectInputs ==
    {h \o <<" ">> \o pre \o w \o post :
        h \in Heads,
        pre \in SeqsUpTo({"x", " "}, MaxPad),
        w \in DialectWords,
        post \in SeqsUpTo({"x", ";"}, MaxPad)}

\* what stands between UNION and the SELECT that follows it
UnionGaps == {<<" ">>, <<"\n">>, <<" ", "x", "\n">>, <<" ", "x", " ">>}

\* SELECT x, a word, a gap, a word, x: among them a second SELECT after UNION
UnionInputs ==
    {h \o <<" ", "x", " ", u>> \o g \o <<s, " ", "x">> :
        h \in Heads,
        u \in {"UNION", "union", "Union", "x"},
        g \in UnionGaps,
        s \in {"SELECT", "select", "Select", "x"}}

SanInputs ==
    KeywordInputs \cup SemicolonInputs \cup LimitInputs \cup OtherInputs
        \cup DialectInputs \cup UnionInputs

(***************************************************************************)
(* The sanitizer as a state machine: one call of validate_sql              *)
(***************************************************************************)

SanInit ==
    /\ sanIn \in SanInputs
    /\ sanOut = None
    /\ sanPc = "start"
    /\ sanDb \in DbTypes
    /\ sanDial = None
    /\ sanExec = << >>
    /\ sanTool = NoToolResult
    /\ SelIdle
    /\ HistIdle
    /\ PoolIdle
    /\ ChatIdle
    /\ AgentIdle

Validate ==
    /\ sanPc = "start"
    /\ sanOut' = validate_sql(sanIn)
    /\ sanPc' = "done"
    /\ UNCHANGED <<sanIn, sanDb, sanDial, sanExec, sanTool>>
    /\ UNCHANGED <<selVars, histVars, poolVars, chatVars, agentVars>>

\* validate_sql is called again, on the text it returned
Revalidate ==
    /\ sanPc = "done"
    /\ sanOut.ok
    /\ sanIn' = sanOut.sql
    /\ sanOut' = validate_sql(sanOut.sql)
    /\ sanPc' = "again"
    /\ UNCHANGED <<sanDb, sanDial, sanExec, sanTool>>
    /\ UNCHANGED <<selVars, histVars, poolVars, chatVars, agentVars>>

\* the second step of try_execute and of execute_sql_tool:
\* validate_for_db_type on the sanitized text
CheckDialect ==
    /\ sanPc = "done"
    /\ sanOut.ok
    /\ sanDial' = validate_for_db_type(sanOut.sql, sanDb)
    /\ sanPc' = "checked"
    /\ UNCHANGED <<sanIn, sanOut, sanDb, sanExec, sanTool>>
    /\ UNCHANGED <<selVars, histVars, poolVars, chatVars, agentVars>>

\* their third step: query::execute_query(.., &sanitized, 100, 0) builds the
\* statement it runs
Execute ==
    /\ sanPc = "checked"
    /\ sanDial.ok
    /\ sanExec' = paginated_query(sanOut.sql, MaxRows, ZeroOffset)
    /\ sanPc' = "executed"
    /\ UNCHANGED <<sanIn, sanOut, sanDb, sanDial, sanTool>>
    /\ UNCHANGED <<selVars, histVars, poolVars, chatVars, agentVars>>

\* execute_sql_tool as a whole, with either value of dry_run
ToolResult(query, dry_run, db_type) ==
    LET checked == ToolCheck(query, dry_run, db_type)
    IN [kind |-> checked.kind, dry_run |-> dry_run, sql |-> checked.sql,
        err |-> checked.err,
        executed |-> IF checked.kind = "exec"
                     THEN paginated_query(checked.sql, MaxRows, ZeroOffset)
                     ELSE << >>,
        data |-> checked.kind = "exec"]

ExecuteSqlTool ==
    /\ sanPc = "start"
    /\ \E dry_run \in BOOLEAN : sanTool' = ToolResult(sanIn, dry_run, sanDb)
    /\ sanPc' = "tool"
    /\ UNCHANGED <<sanIn, sanOut, sanDb, sanDial, sanExec>>
    /\ UNCHANGED <<selVars, histVars, poolVars, chatVars, agentVars>>

SanNext == Validate \/ Revalidate \/ CheckDialect \/ Execute \/ ExecuteSqlTool

SpecSan == SanInit /\ [][SanNext]_vars

(***************************************************************************)
(* selector.rs: SelectorAgent::parse_selection_response                    *)
(***************************************************************************)

\* most table objects in the "tables" array of a response
MaxSelTables == 2

\* most tables of a full schema
MaxSchemaTables == 2

\* a JSON value that is not there, and one that is there but is no string
Missing == "<missing>"

JsonNumber == "<number>"

\* str::eq_ignore_ascii_case on the names that occur
AsciiLower(n) ==
    CASE n = "USERS"  -> "users"
      [] n = "Orders" -> "orders"
      [] n = "ID"     -> "id"
      [] n = "Name"   -> "name"
      [] OTHER        -> n

\* a comparison of names that tells upper case from lower case
eq_exact_case(a, b) == a = b

eq_ignore_ascii_case(a, b) == AsciiLower(a) = AsciiLower(b)

\* schema.rs: ColumnInfo and Table, as far as the Selector reads them
ColumnInfo(name, pk, fk) ==
    [name |-> name, is_primary_key |-> pk, is_foreign_key |-> fk]

Table(name, columns) == [name |-> name, columns |-> columns]

\* table_obj["columns"]: an array, or nothing that as_array accepts
NoColumns == [is_array |-> FALSE, items |-> << >>]

ColumnArray(items) == [is_array |-> TRUE, items |-> items]

\* one element of the "tables" array: name is Missing when the key is absent
\* or holds no string
TableObj(name, columns) == [name |-> name, columns |-> columns]

\* the names the strings of table_obj["columns"] give (filter_map over as_str)
RECURSIVE Strings(_)
Strings(arr) ==
    IF arr = << >> THEN << >>
    ELSE IF Head(arr) = JsonNumber THEN Strings(Tail(arr))
    ELSE <<Head(arr)>> \o Strings(Tail(arr))

RECURSIVE Names(_)
Names(items) ==
    IF items = << >> THEN << >> ELSE <<Head(items).name>> \o Names(Tail(items))

\* the filter of full_table.columns by column_names
RECURSIVE FilterColumns(_, _)
FilterColumns(columns, column_names) ==
    IF columns = << >> THEN << >>
    ELSE (IF \E i \in 1..Len(column_names) :
                eq_ignore_ascii_case(column_names[i], Head(columns).name)
          THEN <<Head(columns)>> ELSE << >>)
         \o FilterColumns(Tail(columns), column_names)

\* the loop that pushes the key columns that final_columns does not hold yet
RECURSIVE AddKeys(_, _)
AddKeys(final_columns, columns) ==
    IF columns = << >> THEN final_columns
    ELSE LET col == Head(columns)
         IN IF (col.is_primary_key \/ col.is_foreign_key)
               /\ ~\E i \in 1..Len(final_columns) : final_columns[i].name = col.name
            THEN AddKeys(Append(final_columns, col), Tail(columns))
            ELSE AddKeys(final_columns, Tail(columns))

\* a pruned table that keeps the selected columns only
PruneTableSelectedOnly(full_table, table_obj) ==
    LET column_names == IF ~table_obj.columns.is_array
                        THEN Names(full_table.columns)
                        ELSE Strings(table_obj.columns.items)
    IN Table(full_table.name,
             IF column_names = << >>
             THEN full_table.columns
             ELSE FilterColumns(full_table.columns, column_names))

\* the pruned table built for a table object that names full_table
PruneTable(full_table, table_obj) ==
    LET column_names == IF ~table_obj.columns.is_array
                        THEN Names(full_table.columns)
                        ELSE Strings(table_obj.columns.items)
        filtered_columns == IF column_names = << >>
                            THEN full_table.columns
                            ELSE FilterColumns(full_table.columns, column_names)
    IN Table(full_table.name, AddKeys(filtered_columns, full_table.columns))

\* full_schema.tables.iter().find(..): the index of the first table with the
\* name, 0 when there is none
FindTable(tables, table_name) ==
    IF \E i \in 1..Len(tables) : eq_ignore_ascii_case(tables[i].name, table_name)
    THEN CHOOSE i \in 1..Len(tables) :
            /\ eq_ignore_ascii_case(tables[i].name, table_name)
            /\ \A j \in 1..(i - 1) : ~eq_ignore_ascii_case(tables[j].name, table_name)
    ELSE 0

\* pruned_tables after the loop over tables_array
RECURSIVE PrunedTables(_, _)
PrunedTables(tables_array, full_schema) ==
    IF tables_array = << >> THEN << >>
    ELSE LET table_obj == Head(tables_array)
             i == FindTable(full_schema, table_obj.name)
         IN (IF i = 0 THEN << >> ELSE <<PruneTable(full_schema[i], table_obj)>>)
            \o PrunedTables(Tail(tables_array), full_schema)

SelectionOk(tables, names) ==
    [ok |-> TRUE, pruned_schema |-> tables, selected_tables |-> names, err |-> ""]

SelectionErr(e) ==
    [ok |-> FALSE, pruned_schema |-> << >>, selected_tables |-> << >>, err |-> e]

\* fn parse_selection_response(&self, response, full_schema)
parse_selection_response(response, full_schema) ==
    IF response.kind = "unparsable"
    THEN SelectionErr("Failed to parse selector response")
    ELSE IF response.kind = "noarray"
    THEN SelectionErr("Invalid selector response: missing tables array")
    ELSE IF \E i \in 1..Len(response.tables) : response.tables[i].name = Missing
    THEN SelectionErr("Invalid table object: missing name")
    ELSE LET pruned_tables == PrunedTables(response.tables, full_schema)
         IN IF pruned_tables = << >>
            THEN SelectionOk(full_schema, Names(full_schema))
            ELSE SelectionOk(pruned_tables, Names(pruned_tables))

(***************************************************************************)
(* Inputs of the Selector                                                  *)
(***************************************************************************)

\* the column lists of the tables of a full schema: keys first, no key at
\* all, a key that is both primary and foreign in the last place
SchemaColumns ==
    { <<ColumnInfo("id", TRUE, FALSE), ColumnInfo("ref_id", FALSE, TRUE),
        ColumnInfo("name", FALSE, FALSE)>>,
      <<ColumnInfo("id", FALSE, FALSE), ColumnInfo("name", FALSE, FALSE)>>,
      <<ColumnInfo("name", FALSE, FALSE), ColumnInfo("ID", TRUE, TRUE)>> }

SchemaTableNames == <<"users", "Orders", "items">>

FullSchemas ==
    { [i \in 1..n |-> Table(SchemaTableNames[i], cols[i])] :
        n \in 1..MaxSchemaTables, cols \in [1..MaxSchemaTables -> SchemaColumns] }

\* what a response says about a table: its name in the case of the schema,
\* in another case, a name the schema does not hold, or no name
ResponseTableNames == {"users", "USERS", "orders", "nosuch", Missing}

\* the "columns" of a table object: absent, empty, partial, in another case,
\* naming no column of the table, or holding no string
ResponseColumns ==
    { NoColumns, ColumnArray(<< >>), ColumnArray(<<"name">>),
      ColumnArray(<<"Name", "id">>), ColumnArray(<<"nosuch">>),
      ColumnArray(<<JsonNumber>>) }

TableObjs == { TableObj(n, c) : n \in ResponseTableNames, c \in ResponseColumns }

\* the responses: JSON with a "tables" array, JSON without one, and text that
\* is no JSON (a refusal)
SelectorResponses ==
    { [kind |-> "json", tables |-> ts] :
        ts \in UNION {[1..k -> TableObjs] : k \in 0..MaxSelTables} }
    \cup { [kind |-> "noarray", tables |-> << >>],
           [kind |-> "unparsable", tables |-> << >>] }

(***************************************************************************)
(* The Selector as a state machine: one call of parse_selection_response   *)
(***************************************************************************)

SelInit ==
    /\ selSchema \in FullSchemas
    /\ selResponse \in SelectorResponses
    /\ selOut = NoSelection
    /\ selPc = "start"
    /\ SanIdle
    /\ HistIdle
    /\ PoolIdle
    /\ ChatIdle
    /\ AgentIdle

ParseSelection ==
    /\ selPc = "start"
    /\ selOut' = parse_selection_response(selResponse, selSchema)
    /\ selPc' = "done"
    /\ UNCHANGED <<selSchema, selResponse>>
    /\ UNCHANGED <<sanVars, histVars, poolVars, chatVars, agentVars>>

SelNext == ParseSelection

SpecSel == SelInit /\ [][SelNext]_vars

(***************************************************************************)
(* decomposer.rs: format_conversation_history, and mac_sql.rs: the         *)
(* messages of handle_general_question                                     *)
(***************************************************************************)

MaxHistory == 12

\* take(10), and the 200 of msg.content.len() > 200 and &msg.content[..200]
HistoryEntries == 10

HistoryChars == 200

\* the first len characters of the text of the history entry id; marked when
\* "..." follows them
Text(id, len, marked) == [id |-> id, len |-> len, marked |-> marked]

\* state.rs: Message, as far as the prompts read it
HistMessage(role, content) == [role |-> role, content |-> content]

\* history.iter().rev().take(n), reversed again
LastEntries(ms, n) ==
    IF Len(ms) <= n THEN ms
    ELSE SubSeq(ms, Len(ms) - n + 1, Len(ms))

\* the content of a line of the history block
Truncate(content) ==
    IF content.len > HistoryChars
    THEN Text(content.id, HistoryChars, TRUE)
    ELSE content

\* the lines of the history block: entries that are neither of the user nor
\* of the assistant are passed over
RECURSIVE HistoryLines(_)
HistoryLines(ms) ==
    IF ms = << >> THEN << >>
    ELSE (IF Head(ms).role = "user"
          THEN <<HistMessage("User", Truncate(Head(ms).content))>>
          ELSE IF Head(ms).role = "assistant"
          THEN <<HistMessage("Assistant", Truncate(Head(ms).content))>>
          ELSE << >>)
         \o HistoryLines(Tail(ms))

\* the block format_conversation_history returns: nothing for an empty
\* history, the header and the lines otherwise
format_conversation_history(conversation_history) ==
    IF conversation_history = << >> THEN NoPrompt
    ELSE [header |-> TRUE,
          entries |-> HistoryLines(LastEntries(conversation_history,
                                               HistoryEntries))]

\* the messages handle_general_question sends: the system prompt, the
\* history, the question
general_messages(previous_messages) ==
    [header |-> FALSE,
     entries |-> <<HistMessage("system", Text(0, 1, FALSE))>>
                 \o previous_messages
                 \o <<HistMessage("user", Text(Len(previous_messages) + 1, 1, FALSE))>>]

\* the histories examined: n entries of user and assistant in turn, the
\* entry p, if any, of another role, the entry q, if any, of a length around
\* HistoryChars
OtherRoles == {"system", "tool"}

ContentLengths ==
    {HistoryChars - 1, HistoryChars, HistoryChars + 1, 2 * HistoryChars}

HistoryOf(n, p, r, q, l) ==
    [k \in 1..n |->
        HistMessage(IF k = p THEN r
                    ELSE IF k % 2 = 1 THEN "user" ELSE "assistant",
                    Text(k, IF k = q THEN l ELSE k, FALSE))]

Histories ==
    { HistoryOf(n, p, r, q, l) :
        n \in 0..MaxHistory, p \in 0..MaxHistory, r \in OtherRoles,
        q \in 0..MaxHistory, l \in ContentLengths }

HistInit ==
    /\ histIn \in Histories
    /\ histOut = NoPrompt
    /\ histPc = "start"
    /\ SanIdle
    /\ SelIdle
    /\ PoolIdle
    /\ ChatIdle
    /\ AgentIdle

\* decompose folds the history into the prompt of the Decomposer
DecomposerPrompt ==
    /\ histPc = "start"
    /\ histOut' = format_conversation_history(histIn)
    /\ histPc' = "decomposer"
    /\ UNCHANGED <<histIn, sanVars, selVars, poolVars, chatVars, agentVars>>

\* handle_general_question puts the history into its messages
GeneralPrompt ==
    /\ histPc = "start"
    /\ histOut' = general_messages(histIn)
    /\ histPc' = "general"
    /\ UNCHANGED <<histIn, sanVars, selVars, poolVars, chatVars, agentVars>>

HistNext == DecomposerPrompt \/ GeneralPrompt

SpecHist == HistInit /\ [][HistNext]_vars

(***************************************************************************)
(* connection.rs: ConnectionManager::get_pool_postgres and get_pool_mysql, *)
(* called concurrently for one connection id                               *)
(***************************************************************************)

MaxCallers == 3

Callers == 1..MaxCallers

\* get_pool_postgres works on postgres_pools, get_pool_mysql on mysql_pools
PoolKinds == {"postgres", "mysql"}

\* no pool; the pool a caller opens carries the caller's number
NoPool == 0

NoPoolResult == [kind |-> "none", pool |-> NoPool, err |-> ""]

PoolOk(pool) == [kind |-> "ok", pool |-> pool, err |-> ""]

PoolErr(e) == [kind |-> "err", pool |-> NoPool, err |-> e]

PoolInit ==
    /\ poolCall \in [Callers -> PoolKinds]
    /\ poolPc = [p \in Callers |-> "fast"]
    /\ poolLocal = [p \in Callers |-> NoPool]
    /\ poolRet = [p \in Callers |-> NoPoolResult]
    /\ pools = [k \in PoolKinds |-> NoPool]
    /\ poolConn \in BOOLEAN
    /\ SanIdle
    /\ SelIdle
    /\ HistIdle
    /\ ChatIdle
    /\ AgentIdle

PoolFrame == UNCHANGED <<poolCall, poolConn, sanVars, selVars, histVars, chatVars, agentVars>>

\* the fast path: under the lock of the map, a pool that is there is returned
FastPath(p) ==
    /\ poolPc[p] = "fast"
    /\ IF pools[poolCall[p]] # NoPool
       THEN /\ poolRet' = [poolRet EXCEPT ![p] = PoolOk(pools[poolCall[p]])]
            /\ poolPc' = [poolPc EXCEPT ![p] = "done"]
       ELSE /\ poolPc' = [poolPc EXCEPT ![p] = "url"]
            /\ UNCHANGED poolRet
    /\ UNCHANGED <<poolLocal, pools>>
    /\ PoolFrame

\* the connection is looked up under the lock of connections
BuildUrl(p) ==
    /\ poolPc[p] = "url"
    /\ IF poolConn
       THEN /\ poolPc' = [poolPc EXCEPT ![p] = "connect"]
            /\ UNCHANGED poolRet
       ELSE /\ poolRet' = [poolRet EXCEPT ![p] = PoolErr("Connection not found")]
            /\ poolPc' = [poolPc EXCEPT ![p] = "done"]
    /\ UNCHANGED <<poolLocal, pools>>
    /\ PoolFrame

\* PgPool::connect(&url).await? outside of any lock: a new pool, or an error
Connect(p) ==
    /\ poolPc[p] = "connect"
    /\ \E ok \in BOOLEAN :
          IF ok
          THEN /\ poolLocal' = [poolLocal EXCEPT ![p] = p]
               /\ poolPc' = [poolPc EXCEPT ![p] = "store"]
               /\ UNCHANGED poolRet
          ELSE /\ poolRet' = [poolRet EXCEPT ![p] = PoolErr("Database error")]
               /\ poolPc' = [poolPc EXCEPT ![p] = "done"]
               /\ UNCHANGED poolLocal
    /\ UNCHANGED pools
    /\ PoolFrame

\* a last step that puts the caller's pool into the map whatever is there
StoreOverwriting(p) ==
    /\ poolPc[p] = "store"
    /\ pools' = [pools EXCEPT ![poolCall[p]] = poolLocal[p]]
    /\ poolRet' = [poolRet EXCEPT ![p] = PoolOk(poolLocal[p])]
    /\ poolPc' = [poolPc EXCEPT ![p] = "done"]
    /\ UNCHANGED poolLocal
    /\ PoolFrame

\* pools.entry(id) under the lock of the map: Occupied returns the pool that
\* is there, Vacant inserts the caller's pool and returns it
Store(p) ==
    /\ poolPc[p] = "store"
    /\ IF pools[poolCall[p]] # NoPool
       THEN /\ poolRet' = [poolRet EXCEPT ![p] = PoolOk(pools[poolCall[p]])]
            /\ UNCHANGED pools
       ELSE /\ pools' = [pools EXCEPT ![poolCall[p]] = poolLocal[p]]
            /\ poolRet' = [poolRet EXCEPT ![p] = PoolOk(poolLocal[p])]
    /\ poolPc' = [poolPc EXCEPT ![p] = "done"]
    /\ UNCHANGED poolLocal
    /\ PoolFrame

PoolNext ==
    \E p \in Callers : FastPath(p) \/ BuildUrl(p) \/ Connect(p) \/ Store(p)

SpecPool == PoolInit /\ [][PoolNext]_vars

(***************************************************************************)
(* lib.rs: the task stream_ai_chat spawns, and storage.rs: the file of the *)
(* session's conversation                                                  *)
(***************************************************************************)

MaxTasks == 2

\* how many messages the file may hold when the requests arrive
MaxStored == 2

\* settings.conversation_history_limit of the run
history_limit == 2

Tasks == 1..MaxTasks

UserMessage(t) == [role |-> "user", content |-> <<"question", t>>]

AssistantMessage(t) == [role |-> "assistant", content |-> <<"answer", t>>]

\* the exchanges before the requests, the first MaxStored messages of them
StoredMessages ==
    [i \in 1..MaxStored |->
        IF i % 2 = 1 THEN UserMessage(0 - ((i + 1) \div 2))
        ELSE AssistantMessage(0 - (i \div 2))]

\* storage.rs: load_conversation; a file that cannot be read or parsed is an Err
load_conversation(file, readable) ==
    IF readable THEN [ok |-> TRUE, messages |-> file]
    ELSE [ok |-> FALSE, messages |-> << >>]

\* storage.rs: load_conversation_with_limit, the last `limit` messages
load_conversation_with_limit(file, readable, limit) ==
    LET all_messages == load_conversation(file, readable)
    IN  IF ~all_messages.ok THEN all_messages
        ELSE IF Len(all_messages.messages) <= limit THEN all_messages
        ELSE [ok |-> TRUE,
              messages |-> SubSeq(all_messages.messages,
                                  Len(all_messages.messages) - limit + 1,
                                  Len(all_messages.messages))]

\* .unwrap_or_else(|_| Vec::new())
OrEmpty(loaded) == IF loaded.ok THEN loaded.messages ELSE << >>

NewTask ==
    [pc |-> "history", previous_messages |-> << >>, result |-> "none",
     all_messages |-> << >>, loaded |-> FALSE, saved |-> FALSE]

ChatInit ==
    /\ chatFile \in {SubSeq(StoredMessages, 1, n) : n \in 0..MaxStored}
    /\ chatTask = [t \in Tasks |-> NewTask]
    /\ SanIdle
    /\ SelIdle
    /\ HistIdle
    /\ PoolIdle
    /\ AgentIdle

ChatFrame == UNCHANGED <<sanVars, selVars, histVars, poolVars, agentVars>>

\* the history for the agent is loaded, an error gives the empty history
LoadHistory(t) ==
    /\ chatTask[t].pc = "history"
    /\ \E readable \in BOOLEAN :
          chatTask' = [chatTask EXCEPT
              ![t].previous_messages =
                  OrEmpty(load_conversation_with_limit(chatFile, readable, history_limit)),
              ![t].pc = "agent"]
    /\ UNCHANGED chatFile
    /\ ChatFrame

\* run_react_agent(..).await returns Ok(response) or Err; on Err nothing is
\* saved
AgentReturns(t) ==
    /\ chatTask[t].pc = "agent"
    /\ \E ok \in BOOLEAN :
          chatTask' = [chatTask EXCEPT
              ![t].result = IF ok THEN "ok" ELSE "err",
              ![t].pc = IF ok THEN "load" ELSE "done"]
    /\ UNCHANGED chatFile
    /\ ChatFrame

\* all messages of the file are loaded, an error gives the empty list
LoadAll(t) ==
    /\ chatTask[t].pc = "load"
    /\ \E readable \in BOOLEAN :
          chatTask' = [chatTask EXCEPT
              ![t].all_messages = OrEmpty(load_conversation(chatFile, readable)),
              ![t].loaded = readable,
              ![t].pc = "save"]
    /\ UNCHANGED chatFile
    /\ ChatFrame

\* the user message and the answer are pushed onto the loaded list and
\* save_conversation writes the list over the file; `let _ =` drops its error
AppendAndSave(t) ==
    /\ chatTask[t].pc = "save"
    /\ \E written \in BOOLEAN :
          /\ chatFile' = IF written
                         THEN chatTask[t].all_messages
                                 \o <<UserMessage(t), AssistantMessage(t)>>
                         ELSE chatFile
          /\ chatTask' = [chatTask EXCEPT ![t].saved = written, ![t].pc = "done"]
    /\ ChatFrame

ChatNext ==
    \E t \in Tasks : LoadHistory(t) \/ AgentReturns(t) \/ LoadAll(t) \/ AppendAndSave(t)

SpecChat == ChatInit /\ [][ChatNext]_vars

(***************************************************************************)
(* Text helpers of the orchestrators                                       *)
(***************************************************************************)

\* str::find from a position: the first place at or after from where pat
\* stands, 0 for None
Find(s, pat, from) ==
    LET hits == {i \in from..(Len(s) - Len(pat) + 1) :
                    i >= 1 /\ SubSeq(s, i, i + Len(pat) - 1) = pat}
    IN IF hits = {} THEN 0
       ELSE CHOOSE i \in hits : \A j \in hits : i <= j

\* str::rfind from a position: the last place at or after from where pat stands
RFind(s, pat, from) ==
    LET hits == {i \in from..(Len(s) - Len(pat) + 1) :
                    i >= 1 /\ SubSeq(s, i, i + Len(pat) - 1) = pat}
    IN IF hits = {} THEN 0
       ELSE CHOOSE i \in hits : \A j \in hits : i >= j

\* response.to_uppercase().find("SELECT")
FindSelect(s) ==
    LET hits == {i \in 1..Len(s) : ToUpper(s[i]) = "SELECT"}
    IN IF hits = {} THEN 0
       ELSE CHOOSE i \in hits : \A j \in hits : i <= j

\* refiner.rs: extract_sql
extract_sql(response) ==
    LET start      == Find(response, <<"FENCE", "sql">>, 1)
        endNl      == Find(response, <<"FENCE", "\n">>, start)
        end        == IF endNl # 0 THEN endNl
                      ELSE RFind(response, <<"FENCE">>, start)
        plainStart == Find(response, <<"FENCE">>, 1)
        plainEnd   == Find(response, <<"FENCE">>, plainStart + 1)
        sel        == FindSelect(response)
    IN IF start # 0 /\ end > start + 2
       THEN Trim(SubSeq(response, start + 2, end - 1))
       ELSE IF plainStart # 0 /\ plainEnd # 0
       THEN LET sql     == Trim(SubSeq(response, plainStart + 1, plainEnd - 1))
                newline == Find(sql, <<"\n">>, 1)
            IN IF newline # 0 /\ ToUpper(sql[1]) # "SELECT"
               THEN Trim(SubSeq(sql, newline, Len(sql)))
               ELSE sql
       ELSE IF sel # 0
       THEN LET semi == Find(response, <<";">>, sel)
                last == IF semi = 0 THEN Len(response) ELSE semi - 1
            IN Trim(SubSeq(response, sel, last))
       ELSE Trim(response)

(***************************************************************************)
(* decomposer.rs: the plan                                                 *)
(***************************************************************************)

\* a key of a query object that is absent or of another type
Absent == "absent"

NoOrder == -1

\* one element of the "queries" array of the response
QueryObj(has_sql, sql, order, dep) ==
    [has_sql |-> has_sql, sql |-> sql, order |-> order, dep |-> dep]

\* decomposer.rs: SubQuery
SubQuery(sql, order, dep) ==
    [sql |-> sql, order |-> order, depends_on_previous |-> dep]

\* the SubQuery parse_decomposer_response builds from a query object
ParseQueryObj(o) ==
    SubQuery(o.sql,
             IF o.order = NoOrder THEN 0 ELSE o.order,
             o.dep = "true")

\* where sort_by_key puts q among the sorted elements: after every element
\* whose order is not greater (the sort is stable)
RECURSIVE InsertByOrder(_, _)
InsertByOrder(q, sorted) ==
    IF sorted = << >> THEN <<q>>
    ELSE IF sorted[Len(sorted)].order <= q.order THEN Append(sorted, q)
    ELSE Append(InsertByOrder(q, SubSeq(sorted, 1, Len(sorted) - 1)),
                sorted[Len(sorted)])

\* a parse that leaves the sub-queries in the order of the response
keep_response_order(qs) == qs

\* queries.sort_by_key(|q| q.order)
RECURSIVE sort_by_key(_)
sort_by_key(qs) ==
    IF qs = << >> THEN << >>
    ELSE InsertByOrder(qs[Len(qs)], sort_by_key(SubSeq(qs, 1, Len(qs) - 1)))

\* what parse_decomposer_response returns for a response
PlanOk(qs) == [ok |-> TRUE, queries |-> qs, err |-> ""]

PlanErr(e) == [ok |-> FALSE, queries |-> << >>, err |-> e]

\* a parse that accepts an empty "queries" array
parse_accepting_no_queries(response) ==
    IF response.kind = "unparsable"
    THEN PlanErr("Failed to parse decomposer response")
    ELSE IF response.kind = "noarray"
    THEN PlanErr("Invalid decomposer response: missing queries array")
    ELSE IF \E i \in 1..Len(response.queries) : ~response.queries[i].has_sql
    THEN PlanErr("Invalid query object: missing sql")
    ELSE PlanOk(sort_by_key([i \in 1..Len(response.queries) |->
                                ParseQueryObj(response.queries[i])]))

parse_decomposer_response(response) ==
    IF response.kind = "unparsable"
    THEN PlanErr("Failed to parse decomposer response")
    ELSE IF response.kind = "noarray"
    THEN PlanErr("Invalid decomposer response: missing queries array")
    ELSE IF \E i \in 1..Len(response.queries) : ~response.queries[i].has_sql
    THEN PlanErr("Invalid query object: missing sql")
    ELSE IF response.queries = << >>
    THEN PlanErr("Decomposer generated no queries")
    ELSE PlanOk(sort_by_key([i \in 1..Len(response.queries) |->
                                ParseQueryObj(response.queries[i])]))

(***************************************************************************)
(* Inputs of a run: what the collaborators may answer                      *)
(***************************************************************************)

\* the longest plan a Decomposer response carries
MaxQueries == 2

\* the largest "order" value a Decomposer response carries
MaxOrder == 1

\* the failures of query::execute_query: the statement fails in the database,
\* or the connection is not there (get_connection)
DbErrors == {"Database error", "Connection not found"}

\* a failure of the text-generation service
LlmError == AppError("OpenRouter error")

\* a failure of the delivery of an event (app.emit(..)?)
EmitError == AppError("Tauri error")

\* the failure of schema::get_schema or get_connection
SchemaError == AppError("Connection not found")

\* the statements a response proposes: tagged by the place i it has in the
\* response; "pg" passes validate_sql and is refused for postgres only
SqlKinds == {"plain", "pg"}

SubSql(kind, i) ==
    IF kind = "plain"
    THEN <<"SELECT", " ">> \o ToDigits(i)
    ELSE <<"SELECT", " ", "pg_", " ">> \o ToDigits(i)

\* the responses to a correction request: a fenced statement, a bare statement
\* that carries a comment, and prose
CorrectionResponses ==
    { <<"FENCE", "sql", "\n", "SELECT", " ", "x", "\n", "FENCE">>,
      <<"x", " ", "SELECT", " ", "x", " ", "-", "-", ";", " ", "x">>,
      <<"x">> }

(***************************************************************************)
(* refiner.rs: RefinerAgent                                                *)
(***************************************************************************)

\* refiner.rs: RefinementAttempt of a failed attempt
RefinementAttempt(sql, e) == [sql |-> sql, success |-> FALSE, error |-> e.msg]

\* the request generate_corrected_sql sends
CorrectionRequest(failed_sql, e, hist) ==
    [kind |-> "correct", failed_sql |-> failed_sql, error |-> e, history |-> hist,
     parallel_tool_calls |-> "None"]

\* a try_execute that hands the candidate itself to execute_query
try_execute_unsanitized(sql, db_type) ==
    LET sanitized == validate_sql(sql)
    IN IF ~sanitized.ok THEN sanitized
       ELSE IF ~validate_for_db_type(sanitized.sql, db_type).ok
       THEN validate_for_db_type(sanitized.sql, db_type)
       ELSE SqlOk(sql)

\* try_execute up to the call of execute_query: the text it hands over, or the
\* error of the sanitizer
try_execute(sql, db_type) ==
    LET sanitized == validate_sql(sql)
    IN IF ~sanitized.ok THEN sanitized
       ELSE IF ~validate_for_db_type(sanitized.sql, db_type).ok
       THEN validate_for_db_type(sanitized.sql, db_type)
       ELSE SqlOk(sanitized.sql)

\* the locals of refine_and_execute and the requests it has in flight
RefinerState(sql, hist, n, p, ret, l, d) ==
    [current_sql |-> sql, history |-> hist, attempts |-> n, rpc |-> p,
     refRet |-> ret, llmReq |-> l, dbReq |-> d]

RefinerIdle == RefinerState(<< >>, << >>, 0, "idle", NoReturn, NoLlmReq, NoDbReq)

\* an Err(error) arm that gives up one attempt early
AttemptFailedEarly(sql, hist, n, e) ==
    LET h == Append(hist, RefinementAttempt(sql, e))
    IN IF n + 1 >= max_attempts
       THEN RefinerState(sql, h, n, "returned",
                         RefinerErr(RefinementFailed(n, e)), NoLlmReq, NoDbReq)
       ELSE RefinerState(sql, h, n, "correcting", NoReturn,
                         CorrectionRequest(sql, e, h), NoDbReq)

\* an Err(error) arm that asks for a correction after every failure
AttemptFailedAlwaysCorrects(sql, hist, n, e) ==
    LET h == Append(hist, RefinementAttempt(sql, e))
    IN RefinerState(sql, h, n, "correcting", NoReturn,
                    CorrectionRequest(sql, e, h), NoDbReq)

\* the Err(error) arm of the loop: record the attempt, give up at
\* max_attempts, ask for a correction otherwise
AttemptFailed(sql, hist, n, e) ==
    LET h == Append(hist, RefinementAttempt(sql, e))
    IN IF n >= max_attempts
       THEN RefinerState(sql, h, n, "returned",
                         RefinerErr(RefinementFailed(n, e)), NoLlmReq, NoDbReq)
       ELSE RefinerState(sql, h, n, "correcting", NoReturn,
                         CorrectionRequest(sql, e, h), NoDbReq)

\* a loop head for which a rejection by the sanitizer ends the Refiner at once
LoopHeadRejectionFatal(sql, hist, n) ==
    IF n >= max_attempts
    THEN RefinerState(sql, hist, n, "returned",
                      RefinerErr(RefinementExhausted(max_attempts)),
                      NoLlmReq, NoDbReq)
    ELSE LET t == try_execute(sql, dbType)
         IN IF ~t.ok
            THEN RefinerState(sql, hist, n + 1, "returned",
                              RefinerErr(SecurityError(t.err)), NoLlmReq, NoDbReq)
            ELSE RefinerState(sql, hist, n + 1, "executing", NoReturn,
                              NoLlmReq, DbRequest(t.sql))

\* the head of the while loop down to the call of execute_query
LoopHead(sql, hist, n) ==
    IF n >= max_attempts
    THEN RefinerState(sql, hist, n, "returned",
                      RefinerErr(RefinementExhausted(max_attempts)),
                      NoLlmReq, NoDbReq)
    ELSE LET t == try_execute(sql, dbType)
         IN IF ~t.ok
            THEN AttemptFailed(sql, hist, n + 1, SecurityError(t.err))
            ELSE RefinerState(sql, hist, n + 1, "executing", NoReturn,
                              NoLlmReq, DbRequest(t.sql))

\* refine_and_execute from its entry
refine_and_execute(original_sql) == LoopHead(original_sql, << >>, 0)

SetRefinerLocals(r) ==
    /\ current_sql' = r.current_sql
    /\ history' = r.history
    /\ attempts' = r.attempts
    /\ rpc' = r.rpc
    /\ refRet' = r.refRet

\* the calls made on the way to the state r from a loop head that was
\* entered with the attempt count n: try_execute once per counted attempt,
\* generate_corrected_sql when r waits for a correction
Count(r, n) ==
    /\ execution_attempts' = execution_attempts + (r.attempts - n)
    /\ correction_requests' =
          correction_requests + (IF r.llmReq.kind = "correct" THEN 1 ELSE 0)

SetRefiner(r) ==
    /\ SetRefinerLocals(r)
    /\ llmReq' = r.llmReq
    /\ dbReq' = r.dbReq

\* what stays as it is while the Refiner works
RefinerFrame ==
    UNCHANGED <<pureVars, strategy, dbType, pc, events, outcome, macVars, reactVars>>

\* an Ok arm that reports the attempts counted from zero
DbReturnOkZeroBased ==
    /\ pc = "refine"
    /\ rpc = "executing"
    /\ SetRefiner(RefinerState(current_sql, history, attempts, "returned",
                    RefinerOk(current_sql,
                              QueryResult(paginated_query(dbReq.sql, dbReq.limit,
                                                          dbReq.offset)),
                              attempts - 1),
                    NoLlmReq, NoDbReq))
    /\ UNCHANGED countVars
    /\ RefinerFrame

\* execute_query returns rows: Ok(RefinerResult)
DbReturnOk ==
    /\ pc = "refine"
    /\ rpc = "executing"
    /\ SetRefiner(RefinerState(current_sql, history, attempts, "returned",
                    RefinerOk(current_sql,
                              QueryResult(paginated_query(dbReq.sql, dbReq.limit,
                                                          dbReq.offset)),
                              attempts),
                    NoLlmReq, NoDbReq))
    /\ UNCHANGED countVars
    /\ RefinerFrame

\* execute_query returns an error
DbReturnErr ==
    /\ pc = "refine"
    /\ rpc = "executing"
    /\ \E e \in DbErrors :
          LET r == AttemptFailed(current_sql, history, attempts, AppError(e))
          IN SetRefiner(r) /\ Count(r, attempts)
    /\ RefinerFrame

\* generate_corrected_sql returns a statement: the loop goes round
CorrectionReturn ==
    /\ pc = "refine"
    /\ rpc = "correcting"
    /\ \E response \in CorrectionResponses :
          LET r == LoopHead(extract_sql(response), history, attempts)
          IN SetRefiner(r) /\ Count(r, attempts)
    /\ RefinerFrame

\* generate_corrected_sql fails: the error leaves refine_and_execute (the ?)
CorrectionFailed ==
    /\ pc = "refine"
    /\ rpc = "correcting"
    /\ SetRefiner(RefinerState(current_sql, history, attempts, "returned",
                               RefinerErr(LlmError), NoLlmReq, NoDbReq))
    /\ UNCHANGED countVars
    /\ RefinerFrame

(***************************************************************************)
(* mac_sql.rs: run_mac_sql_agent                                           *)
(***************************************************************************)

\* the responses the Decomposer may get: the "queries" array with up to
\* MaxQueries objects, or a response that has none
QueryObjsAt(i) ==
    { QueryObj(TRUE, SubSql(k, i), o, d) :
        k \in SqlKinds, o \in {NoOrder} \cup 0..MaxOrder,
        d \in {"true", "false", Absent} }

\* the arrays of n query objects
RECURSIVE QueryArrays(_)
QueryArrays(n) ==
    IF n = 0 THEN {<< >>}
    ELSE {Append(qs, o) : qs \in QueryArrays(n - 1), o \in QueryObjsAt(n)}

\* a plan of three steps: the third builds on the second
ThreeStepPlan ==
    <<QueryObj(TRUE, SubSql("plain", 1), 0, "false"),
      QueryObj(TRUE, SubSql("plain", 2), 1, "false"),
      QueryObj(TRUE, SubSql("plain", 3), 2, "true")>>

DecomposerResponses ==
    { [kind |-> "json", queries |-> qs] :
        qs \in UNION {QueryArrays(n) : n \in 0..MaxQueries} }
    \cup { [kind |-> "json", queries |-> ThreeStepPlan],
           [kind |-> "json", queries |-> <<QueryObj(FALSE, << >>, 0, "false")>>],
           [kind |-> "noarray", queries |-> << >>],
           [kind |-> "unparsable", queries |-> << >>] }

\* the sum of the attempts of the collected RefinerResults
RECURSIVE SumAttempts(_)
SumAttempts(rs) ==
    IF rs = << >> THEN 0
    ELSE rs[Len(rs)].attempts + SumAttempts(SubSeq(rs, 1, Len(rs) - 1))

SetRun(p, o, l, d) ==
    /\ pc' = p
    /\ outcome' = o
    /\ llmReq' = l
    /\ dbReq' = d
    /\ UNCHANGED <<pureVars, strategy, dbType>>

\* the run returns Err(e)
Abort(e) == SetRun("done", RunError(e), NoLlmReq, NoDbReq)

\* the events es are delivered in order; the first delivery that fails ends
\* the run with its error, and Then follows when all are delivered
EmitThen(es, Failed, Then) ==
    \E k \in 0..Len(es) :
        /\ events' = events \o SubSeq(es, 1, k)
        /\ IF k < Len(es) THEN Failed ELSE Then

MacLocalsUnchanged == UNCHANGED <<macVars, refinerVars, reactVars>>

\* run_mac_sql_agent from its entry to classify_question
MacStart ==
    /\ strategy = "mac"
    /\ pc = "start"
    /\ EmitThen(<<Event("ai_thinking", "Analyzing", 0)>>,
                Abort(EmitError),
                SetRun("classify", NoOutcome, LlmRequest("classify"), NoDbReq))
    /\ MacLocalsUnchanged

\* classify_question returns: a general question goes to
\* handle_general_question, a data question to the Selector
MacClassifyReturn ==
    /\ strategy = "mac"
    /\ pc = "classify"
    /\ \E question_type \in {"General", "TableView", "error"}, schemaOk \in BOOLEAN :
          IF question_type = "error"
          THEN Abort(LlmError) /\ UNCHANGED events
          ELSE IF ~schemaOk
          THEN Abort(SchemaError) /\ UNCHANGED events
          ELSE IF question_type = "General"
          THEN /\ SetRun("general", NoOutcome, LlmRequest("general"), NoDbReq)
               /\ UNCHANGED events
          ELSE EmitThen(<<Event("ai_thinking", "Identifying", 0)>>,
                        Abort(EmitError),
                        SetRun("select", NoOutcome, LlmRequest("select"), NoDbReq))
    /\ MacLocalsUnchanged

\* handle_general_question after its chat_with_format
GeneralReturn ==
    /\ strategy = "mac"
    /\ pc = "general"
    /\ \E ok \in BOOLEAN :
          IF ~ok
          THEN Abort(LlmError) /\ UNCHANGED events
          ELSE EmitThen(<<Event("ai_token", "answer", 0),
                          Event("ai_complete", "answer", 0)>>,
                        Abort(EmitError),
                        SetRun("done",
                               AgentResponse(Answer("general", NoError, << >>, << >>),
                                             << >>, 1),
                               NoLlmReq, NoDbReq))
    /\ MacLocalsUnchanged

\* select_relevant_schema returns
SelectReturn ==
    /\ strategy = "mac"
    /\ pc = "select"
    /\ \E ok \in BOOLEAN :
          IF ~ok
          THEN Abort(LlmError) /\ UNCHANGED events
          ELSE EmitThen(<<Event("ai_thinking", "Selected", 0),
                          Event("ai_thinking", "Generating", 0)>>,
                        Abort(EmitError),
                        SetRun("decompose", NoOutcome, LlmRequest("decompose"),
                               NoDbReq))
    /\ MacLocalsUnchanged

\* a round that takes the sub-queries from the end of the plan
BeginSubQueryReversed(queries, i, pre) ==
    EmitThen(pre \o <<Event("ai_thinking", "Executing", i)>>,
             Abort(EmitError) /\ UNCHANGED <<idx, refinerVars>>,
             /\ idx' = i
             /\ pc' = "refine"
             /\ outcome' = NoOutcome
             /\ SetRefiner(refine_and_execute(queries[Len(queries) - i].sql))
             /\ Count(refine_and_execute(queries[Len(queries) - i].sql), 0)
             /\ UNCHANGED <<pureVars, strategy, dbType>>)

\* one round of the for loop from its head to the first await of the
\* Refiner, after the events pre of the code before it
BeginSubQuery(queries, i, pre) ==
    EmitThen(pre \o <<Event("ai_thinking", "Executing", i)>>,
             Abort(EmitError) /\ UNCHANGED <<idx, refinerVars>>,
             /\ idx' = i
             /\ pc' = "refine"
             /\ outcome' = NoOutcome
             /\ SetRefiner(refine_and_execute(queries[i + 1].sql))
             /\ Count(refine_and_execute(queries[i + 1].sql), 0)
             /\ UNCHANGED <<pureVars, strategy, dbType>>)

\* the run returns its answer after ai_token and ai_complete
ReturnAnswer(answer, sqls, rrs, pre) ==
    EmitThen(pre \o <<Event("ai_token", answer.type, 0),
                      Event("ai_complete", answer.type, 0)>>,
             Abort(EmitError),
             SetRun("done", AgentResponse(answer, sqls, SumAttempts(rrs)),
                    NoLlmReq, NoDbReq))

\* the code after the for loop: generate_final_answer and the return
FinishLoop(results, sqls, rrs, pre) ==
    /\ UNCHANGED idx
    /\ SetRefinerLocals(RefinerIdle)
    /\ UNCHANGED countVars
    /\ IF results = << >>
       THEN ReturnAnswer(Answer("no_data", NoError, << >>, results), sqls, rrs, pre)
       ELSE IF Len(results) = 1
       THEN ReturnAnswer(Answer("single", NoError, << >>, results), sqls, rrs, pre)
       ELSE EmitThen(pre,
                     Abort(EmitError),
                     SetRun("summarize", NoOutcome, LlmRequest("summarize"),
                            NoDbReq))

\* the for loop moves on from the sub-query at index i
Advance(queries, i, results, sqls, rrs, pre) ==
    IF i + 1 < Len(queries)
    THEN BeginSubQuery(queries, i + 1, pre)
    ELSE FinishLoop(results, sqls, rrs, pre)

\* decompose returns: the plan, and the for loop starts
DecomposeReturn ==
    /\ strategy = "mac"
    /\ pc = "decompose"
    /\ \E response \in DecomposerResponses \cup {[kind |-> "error", queries |-> << >>]} :
          IF response.kind = "error"
          THEN Abort(LlmError) /\ UNCHANGED <<events, plan, idx, refinerVars>>
          ELSE LET parsed == parse_decomposer_response(response)
               IN IF ~parsed.ok
                  THEN /\ Abort(AppError(parsed.err))
                       /\ UNCHANGED <<events, plan, idx, refinerVars>>
                  ELSE /\ plan' = parsed.queries
                       /\ BeginSubQuery(parsed.queries, 0,
                                        <<Event("ai_thinking", "Complexity", 0)>>)
    /\ UNCHANGED <<all_sql, all_results, refiner_results, reactVars>>

\* refine_and_execute returned Ok(result): the Ok arm and the next round
SubQueryOk ==
    /\ strategy = "mac"
    /\ pc = "refine"
    /\ rpc = "returned"
    /\ refRet.kind = "ok"
    /\ LET sqls    == Append(all_sql, refRet.final_sql)
           results == Append(all_results, refRet.result)
           rrs     == Append(refiner_results,
                             [final_sql |-> refRet.final_sql,
                              result |-> refRet.result,
                              attempts |-> refRet.attempts])
           pre     == (IF refRet.attempts > 1
                       THEN <<Event("ai_thinking", "Succeeded", idx)>>
                       ELSE << >>)
                      \o <<Event("ai_table_data", "data", idx)>>
       IN /\ all_sql' = sqls
          /\ all_results' = results
          /\ refiner_results' = rrs
          /\ Advance(plan, idx, results, sqls, rrs, pre)
    /\ UNCHANGED <<plan, reactVars>>

\* an Err arm that also skips a failed first sub-query
SubQueryFailedSkipsFirst ==
    /\ strategy = "mac"
    /\ pc = "refine"
    /\ rpc = "returned"
    /\ refRet.kind = "err"
    /\ LET sub_query == plan[idx + 1]
           pre       == <<Event("ai_thinking", "Query failed", idx)>>
       IN IF sub_query.depends_on_previous
          THEN /\ EmitThen(pre \o <<Event("ai_complete", "query_error", idx)>>,
                           Abort(EmitError),
                           SetRun("done",
                                  AgentResponse(Answer("query_error", refRet.error,
                                                       sub_query.sql, << >>),
                                                <<sub_query.sql>>, 1),
                                  NoLlmReq, NoDbReq))
               /\ UNCHANGED <<idx, refinerVars>>
          ELSE Advance(plan, idx, all_results, all_sql, refiner_results, pre)
    /\ UNCHANGED <<plan, all_sql, all_results, refiner_results, reactVars>>

\* refine_and_execute returned Err(e): the Err arm and the next round
SubQueryFailed ==
    /\ strategy = "mac"
    /\ pc = "refine"
    /\ rpc = "returned"
    /\ refRet.kind = "err"
    /\ LET sub_query == plan[idx + 1]
           pre       == <<Event("ai_thinking", "Query failed", idx)>>
       IN IF idx = 0 \/ sub_query.depends_on_previous
          THEN /\ EmitThen(pre \o <<Event("ai_complete", "query_error", idx)>>,
                           Abort(EmitError),
                           SetRun("done",
                                  AgentResponse(Answer("query_error", refRet.error,
                                                       sub_query.sql, << >>),
                                                <<sub_query.sql>>, 1),
                                  NoLlmReq, NoDbReq))
               /\ UNCHANGED <<idx, refinerVars>>
          ELSE Advance(plan, idx, all_results, all_sql, refiner_results, pre)
    /\ UNCHANGED <<plan, all_sql, all_results, refiner_results, reactVars>>

\* generate_final_answer returns from its chat_with_format
SummarizeReturn ==
    /\ strategy = "mac"
    /\ pc = "summarize"
    /\ \E ok \in BOOLEAN :
          IF ~ok
          THEN Abort(LlmError) /\ UNCHANGED events
          ELSE ReturnAnswer(Answer("summary", NoError, << >>, all_results),
                            all_sql, refiner_results, << >>)
    /\ MacLocalsUnchanged

(***************************************************************************)
(* react_agent.rs: run_react_agent, and execute_sql.rs: execute_sql_tool   *)
(***************************************************************************)

\* state.rs: Message, as far as the loop fills it
Message(role, content, tool_call_id, tool_calls) ==
    [role |-> role, content |-> content, tool_call_id |-> tool_call_id,
     tool_calls |-> tool_calls]

NoId == <<0, 0>>

\* a tool call of a response: args is "ok", "unparsable" (not JSON) or
\* "noquery" (no string under "query")
ToolCall(name, args, query, dry_run) ==
    [id |-> NoId, name |-> name, args |-> args, query |-> query,
     dry_run |-> dry_run]

CallPlain == ToolCall("execute_sql", "ok", <<"SELECT", " ", "x">>, FALSE)

CallPg == ToolCall("execute_sql", "ok", <<"SELECT", " ", "pg_", ";">>, FALSE)

CallDry == ToolCall("execute_sql", "ok", <<"SELECT", " ", "x">>, TRUE)

CallOther == ToolCall("other_tool", "ok", << >>, FALSE)

CallUnparsable == ToolCall("execute_sql", "unparsable", << >>, FALSE)

CallNoQuery == ToolCall("execute_sql", "noquery", << >>, FALSE)

\* the responses of chat_with_tools: kind is "tools" (tool_calls is Some),
\* "content" (content only), "empty" (neither), "nochoice" (no choices) or
\* "error" (the call failed); thinking tells whether content is non-empty
ToolResponse(kind, thinking, calls) ==
    [kind |-> kind, thinking |-> thinking, calls |-> calls]

ToolResponses ==
    { ToolResponse("tools", FALSE, <<CallOther, CallPg>>),
      ToolResponse("tools", TRUE, <<CallDry, CallPlain>>),
      ToolResponse("tools", FALSE, << >>),
      ToolResponse("tools", TRUE, << >>),
      ToolResponse("tools", FALSE, <<CallUnparsable>>),
      ToolResponse("tools", FALSE, <<CallNoQuery>>),
      ToolResponse("content", FALSE, << >>),
      ToolResponse("empty", FALSE, << >>),
      ToolResponse("nochoice", FALSE, << >>),
      ToolResponse("error", FALSE, << >>) }

\* the calls of the response of model call n get the ids <<n, 1>>, <<n, 2>>, ..
WithIds(calls, n) ==
    [k \in 1..Len(calls) |-> [calls[k] EXCEPT !.id = <<n, k>>]]

ReactLocalsUnchanged == UNCHANGED <<macVars, refinerVars>>

\* run_react_agent from its entry to classify_question
ReactStart ==
    /\ strategy = "react"
    /\ pc = "start"
    /\ SetRun("classify", NoOutcome, LlmRequest("classify"), NoDbReq)
    /\ UNCHANGED <<events, reactVars>>
    /\ ReactLocalsUnchanged

\* classify_question returns: a general question is answered by chat_stream,
\* a data question enters the tool loop with its first model call
ReactClassifyReturn ==
    /\ strategy = "react"
    /\ pc = "classify"
    /\ \E question_type \in {"General", "TableView", "error"}, schemaOk \in BOOLEAN :
          IF question_type = "error"
          THEN Abort(LlmError) /\ UNCHANGED reactVars
          ELSE IF question_type = "General"
          THEN /\ SetRun("stream", NoOutcome, LlmRequest("stream"), NoDbReq)
               /\ UNCHANGED reactVars
          ELSE IF ~schemaOk
          THEN Abort(SchemaError) /\ UNCHANGED reactVars
          ELSE /\ messages' = <<Message("system", "prompt", NoId, << >>),
                                Message("user", "question", NoId, << >>)>>
               /\ sql_queries' = << >>
               /\ iterations' = 1
               /\ pending' = << >>
               /\ SetRun("tools", NoOutcome, LlmRequest("tools"), NoDbReq)
    /\ UNCHANGED events
    /\ ReactLocalsUnchanged

\* the general answer: the stream ends or fails, each token is emitted
StreamReturn ==
    /\ strategy = "react"
    /\ pc = "stream"
    /\ \E ok \in BOOLEAN :
          IF ~ok
          THEN Abort(LlmError) /\ UNCHANGED events
          ELSE EmitThen(<<Event("ai_token", "answer", 0),
                          Event("ai_complete", "answer", 0)>>,
                        Abort(EmitError),
                        SetRun("done",
                               AgentResponse(Answer("general", NoError, << >>, << >>),
                                             << >>, 0),
                               NoLlmReq, NoDbReq))
    /\ UNCHANGED reactVars
    /\ ReactLocalsUnchanged

\* a loop condition that lets one more model call through
AfterCallsUncapped(rest) ==
    IF rest # << >>
    THEN /\ SetRun("calls", NoOutcome, NoLlmReq, NoDbReq)
         /\ UNCHANGED iterations
    ELSE IF iterations <= max_iterations
    THEN /\ iterations' = iterations + 1
         /\ SetRun("tools", NoOutcome, LlmRequest("tools"), NoDbReq)
    ELSE /\ UNCHANGED iterations
         /\ Abort(AppError("Maximum iterations reached without finding answer"))

\* a loop that calls the model again while tool calls of the response wait
AfterCallsModelFirst(rest) ==
    IF iterations < max_iterations
    THEN /\ iterations' = iterations + 1
         /\ SetRun("tools", NoOutcome, LlmRequest("tools"), NoDbReq)
    ELSE /\ UNCHANGED iterations
         /\ Abort(AppError("Maximum iterations reached without finding answer"))

\* the code after the last tool call of a response: the while loop goes
\* round with the next model call, or ends at max_iterations
AfterCalls(rest) ==
    IF rest # << >>
    THEN /\ SetRun("calls", NoOutcome, NoLlmReq, NoDbReq)
         /\ UNCHANGED iterations
    ELSE IF iterations < max_iterations
    THEN /\ iterations' = iterations + 1
         /\ SetRun("tools", NoOutcome, LlmRequest("tools"), NoDbReq)
    ELSE /\ UNCHANGED iterations
         /\ Abort(AppError("Maximum iterations reached without finding answer"))

\* chat_with_tools returns
ToolsReturn ==
    /\ strategy = "react"
    /\ pc = "tools"
    /\ \E response \in ToolResponses :
          IF response.kind = "error"
          THEN Abort(LlmError) /\ UNCHANGED <<events, reactVars>>
          ELSE IF response.kind = "nochoice"
          THEN /\ Abort(AppError("No response from model"))
               /\ UNCHANGED <<events, reactVars>>
          ELSE IF response.kind = "empty"
          THEN /\ Abort(AppError("Model returned empty response"))
               /\ UNCHANGED <<events, reactVars>>
          ELSE IF response.kind = "content"
          THEN /\ EmitThen(<<Event("ai_token", "answer", iterations),
                             Event("ai_complete", "answer", iterations)>>,
                           Abort(EmitError),
                           SetRun("done",
                                  AgentResponse(Answer("content", NoError, << >>, << >>),
                                                sql_queries, iterations),
                                  NoLlmReq, NoDbReq))
               /\ UNCHANGED reactVars
          ELSE LET tool_calls == WithIds(response.calls, iterations)
               IN EmitThen(IF response.thinking
                           THEN <<Event("ai_token", "thinking", iterations)>>
                           ELSE << >>,
                           Abort(EmitError) /\ UNCHANGED reactVars,
                           /\ messages' = Append(messages,
                                 Message("assistant",
                                         IF response.thinking THEN "thinking" ELSE "",
                                         NoId, tool_calls))
                           /\ pending' = tool_calls
                           /\ UNCHANGED sql_queries
                           /\ AfterCalls(tool_calls))
    /\ ReactLocalsUnchanged

\* one round of the for loop over tool_calls, down to the call of
\* execute_query or to the end of the round
ProcessCall ==
    /\ strategy = "react"
    /\ pc = "calls"
    /\ pending # << >>
    /\ LET tool_call == Head(pending)
           rest      == Tail(pending)
       IN IF tool_call.name # "execute_sql"
          THEN /\ pending' = rest
               /\ AfterCalls(rest)
               /\ UNCHANGED <<events, messages, sql_queries>>
          ELSE IF tool_call.args = "unparsable"
          THEN /\ Abort(AppError("Failed to parse tool args"))
               /\ UNCHANGED <<events, reactVars>>
          ELSE IF tool_call.args = "noquery"
          THEN /\ Abort(AppError("Missing query in tool call"))
               /\ UNCHANGED <<events, reactVars>>
          ELSE LET checked == ToolCheck(tool_call.query, tool_call.dry_run, dbType)
               IN EmitThen(<<Event("ai_token", "Executing SQL", iterations)>>,
                           Abort(EmitError) /\ UNCHANGED reactVars,
                           /\ sql_queries' = Append(sql_queries, tool_call.query)
                           /\ IF checked.kind = "exec"
                              THEN /\ SetRun("toolexec", NoOutcome, NoLlmReq,
                                             DbRequest(checked.sql))
                                   /\ UNCHANGED <<messages, pending, iterations>>
                              ELSE /\ messages' = Append(messages,
                                         Message("tool",
                                                 IF checked.kind = "dry"
                                                 THEN "validated" ELSE checked.err,
                                                 tool_call.id, << >>))
                                   /\ pending' = rest
                                   /\ AfterCalls(rest))
    /\ ReactLocalsUnchanged

\* execute_query returns rows to execute_sql_tool: the data events and the
\* tool message
ToolDbReturnOk ==
    /\ strategy = "react"
    /\ pc = "toolexec"
    /\ EmitThen(<<Event("ai_table_data", "data", iterations)>>,
                Abort(EmitError) /\ UNCHANGED reactVars,
                /\ messages' = Append(messages,
                      Message("tool", "Query executed successfully",
                              Head(pending).id, << >>))
                /\ pending' = Tail(pending)
                /\ UNCHANGED sql_queries
                /\ AfterCalls(Tail(pending)))
    /\ ReactLocalsUnchanged

\* execute_query returns an error: the tool message carries it
ToolDbReturnErr ==
    /\ strategy = "react"
    /\ pc = "toolexec"
    /\ \E e \in DbErrors :
          /\ messages' = Append(messages,
                Message("tool", e, Head(pending).id, << >>))
          /\ pending' = Tail(pending)
          /\ UNCHANGED <<events, sql_queries>>
          /\ AfterCalls(Tail(pending))
    /\ ReactLocalsUnchanged

(***************************************************************************)
(* The runs of the orchestrators                                           *)
(***************************************************************************)

\* a chat request enters one of the two orchestrators
Init ==
    /\ SanIdle
    /\ SelIdle
    /\ HistIdle
    /\ PoolIdle
    /\ ChatIdle
    /\ strategy \in {"mac", "react"}
    /\ dbType \in DbTypes
    /\ pc = "start"
    /\ events = << >>
    /\ outcome = NoOutcome
    /\ llmReq = NoLlmReq
    /\ dbReq = NoDbReq
    /\ plan = << >>
    /\ idx = 0
    /\ all_sql = << >>
    /\ all_results = << >>
    /\ refiner_results = << >>
    /\ current_sql = << >>
    /\ history = << >>
    /\ attempts = 0
    /\ rpc = "idle"
    /\ refRet = NoReturn
    /\ messages = << >>
    /\ iterations = 0
    /\ sql_queries = << >>
    /\ pending = << >>
    /\ execution_attempts = 0
    /\ correction_requests = 0

Next ==
    \/ MacStart
    \/ MacClassifyReturn
    \/ GeneralReturn
    \/ SelectReturn
    \/ DecomposeReturn
    \/ DbReturnOk
    \/ DbReturnErr
    \/ CorrectionReturn
    \/ CorrectionFailed
    \/ SubQueryOk
    \/ SubQueryFailed
    \/ SummarizeReturn
    \/ ReactStart
    \/ ReactClassifyReturn
    \/ StreamReturn
    \/ ToolsReturn
    \/ ProcessCall
    \/ ToolDbReturnOk
    \/ ToolDbReturnErr

Spec == Init /\ [][Next]_vars

\* the fixed pipeline on its own: a chat request enters run_mac_sql_agent
MacInit == Init /\ strategy = "mac"

MacNext ==
    \/ MacStart
    \/ MacClassifyReturn
    \/ GeneralReturn
    \/ SelectReturn
    \/ DecomposeReturn
    \/ DbReturnOk
    \/ DbReturnErr
    \/ CorrectionFailed
    \/ CorrectionReturn
    \/ SubQueryOk
    \/ SubQueryFailed
    \/ SummarizeReturn

\* every request to the text-generation service or to the database returns,
\* with a result or with an error, and the code between two awaits runs on
SpecLive == MacInit /\ [][MacNext]_vars /\ WF_vars(MacNext)

(***************************************************************************)
(* Claims about the sanitizer                                              *)
(***************************************************************************)

\* the text s holds a word of W, in any letter case, as a whole word
ContainsWord(s, W) ==
    \E i \in 1..Len(s) :
        /\ ToUpper(s[i]) \in W
        /\ (i = 1 \/ ~IsWordTok(s[i-1]))
        /\ (i = Len(s) \/ ~IsWordTok(s[i+1]))

\* the text s holds the two characters a, b next to each other
ContainsPair(s, a, b) ==
    \E i \in 1..(Len(s) - 1) : s[i] = a /\ s[i+1] = b

\* C3: validate_sql rejects every input that holds one of the ten DML/DDL
\* words in any letter case, or the comment marker -- or /*, wherever it is.
C3_KeywordsAndCommentsRejected ==
    (sanPc = "done"
        /\ (\/ ContainsWord(sanIn, DmlWords)
            \/ ContainsPair(sanIn, "-", "-")
            \/ ContainsPair(sanIn, "/", "*")))
    => ~sanOut.ok

\* a SELECT with a lower-case DML word after other text has been rejected
C3_Witness ==
    /\ sanPc = "done"
    /\ Len(sanIn) >= 4
    /\ sanIn[1] = "SELECT"
    /\ sanIn[2] = " "
    /\ sanIn[3] = "revoke"
    /\ sanOut = SqlErr(RuleError(1))

\* the text s holds a semicolon that is followed by further statement text
HasFollowOnStatement(s) ==
    \E i \in 1..Len(s) : \E j \in (i+1)..Len(s) :
        s[i] = ";" /\ ~IsSpace(s[j]) /\ s[j] # ";"

\* C4: validate_sql rejects every input in which a semicolon is followed by
\* further statement text, whatever the letter case of the follow-on
\* statement and whatever line breaks stand between the statements.
C4_StackedStatementsRejected ==
    (sanPc = "done" /\ HasFollowOnStatement(sanIn)) => ~sanOut.ok

\* the value of the digit run d is greater than 100
Over100(d) ==
    LET z == StripZeros(d)
    IN Len(z) > 3 \/ (Len(z) = 3 /\ DecValue(z, 0) > 100)

\* the positions in s where a clause `LIMIT n` starts
LimitClauses(s) ==
    {i \in 1..Len(s) : BoundaryBefore(s, i) /\ LimitMatchAt(s, i)}

\* C5: no statement that validate_sql returns holds a clause LIMIT n with
\* n > 100, whatever the size of n and the number of LIMIT clauses.
C5_HardCap ==
    (sanPc = "done" /\ sanOut.ok)
    => \A i \in LimitClauses(sanOut.sql) : ~Over100(LimitDigits(sanOut.sql, i))

\* the statement s with the LIMIT clause that starts at i replaced by LIMIT 100
WithClauseCapped(s, i) ==
    SubSeq(s, 1, i - 1) \o <<"LIMIT", " ", "1", "0", "0">>
    \o SubSeq(s, LimitEnd(s, i) + 1, Len(s))

\* C6: for an accepted statement (trimmed, trailing semicolons removed)
\* validate_sql returns it with " LIMIT 100" appended when it has no LIMIT n
\* clause, unchanged when its LIMIT n has n <= 100, and with the clause
\* replaced by LIMIT 100 and nothing else changed when n > 100.
C6_LimitNormalization ==
    (sanPc = "done" /\ sanOut.ok)
    => LET base == StripSemicolons(Trim(sanIn))
           cl   == LimitClauses(base)
       IN /\ cl = {} => sanOut.sql = base \o <<" ", "LIMIT", " ", "1", "0", "0">>
          /\ \A i \in cl :
                cl = {i} =>
                    IF Over100(LimitDigits(base, i))
                    THEN sanOut.sql = WithClauseCapped(base, i)
                    ELSE sanOut.sql = base

\* C16: validate_sql accepts every text it returned and returns it as it is:
\* after the second call, made on the result of the first, the result is Ok
\* and equals the text handed in
C16_Idempotent ==
    sanPc = "again" => (sanOut.ok /\ sanOut.sql = sanIn)

\* the text s holds the words of pat one after the other, in any letter case
ContainsAnyCase(s, pat) ==
    \E i \in 1..(Len(s) - Len(pat) + 1) :
        \A k \in 1..Len(pat) : ToUpper(s[i + k - 1]) = pat[k]

\* C22: for postgres validate_for_db_type rejects every statement that holds
\* pg_ or pgcrypto, and for mysql and mariadb every statement that holds
\* LOAD_FILE or INTO OUTFILE, in whatever letter case the name is written
C22_DialectRulesAnyCase ==
    sanPc \in {"checked", "executed"} =>
        /\ (sanDb = "postgres"
              /\ (ContainsAnyCase(sanOut.sql, <<"PG_">>)
                    \/ ContainsAnyCase(sanOut.sql, <<"PGCRYPTO">>)))
             => ~sanDial.ok
        /\ (sanDb \in {"mysql", "mariadb"}
              /\ (ContainsAnyCase(sanOut.sql, <<"LOAD_FILE">>)
                    \/ ContainsAnyCase(sanOut.sql, <<"INTO", " ", "OUTFILE">>)))
             => ~sanDial.ok

\* C23: the statement execute_query runs for the sanitized text under the
\* row cap 100 and the offset 0 cannot return more than 100 rows: it holds a
\* LIMIT clause, and none of its LIMIT clauses allows more than 100 rows
C23_RowCapHolds ==
    sanPc = "executed" =>
        /\ LimitClauses(sanExec) # {}
        /\ \A i \in LimitClauses(sanExec) : ~Over100(LimitDigits(sanExec, i))

\* the text s ends with a semicolon
EndsWithSemicolon(s) == Len(s) > 0 /\ s[Len(s)] = ";"

\* the clause validate_sql appends to a statement without LIMIT
AppendedLimit == <<" ", "LIMIT", " ", "1", "0", "0">>

\* the text s without the appended clause, when it ends with it
WithoutAppendedLimit(s) ==
    IF Len(s) >= Len(AppendedLimit)
       /\ SubSeq(s, Len(s) - Len(AppendedLimit) + 1, Len(s)) = AppendedLimit
    THEN SubSeq(s, 1, Len(s) - Len(AppendedLimit))
    ELSE s

\* C30: a statement that validate_sql accepts is also accepted when one or
\* more semicolons follow it, and the text returned has no semicolon at its
\* end, nor before the LIMIT clause that was appended
C30_TrailingSemicolonsStripped ==
    (sanPc = "done"
        /\ EndsWithSemicolon(sanIn)
        /\ validate_sql(StripSemicolons(sanIn)).ok)
    => /\ sanOut.ok
       /\ ~EndsWithSemicolon(sanOut.sql)
       /\ ~EndsWithSemicolon(WithoutAppendedLimit(sanOut.sql))

\* the text s holds the word UNION and, somewhere after it, the word SELECT,
\* both in any letter case
UnionThenSelect(s) ==
    \E i \in 1..Len(s) : \E j \in (i+1)..Len(s) :
        /\ ToUpper(s[i]) = "UNION"
        /\ BoundaryBefore(s, i) /\ BoundaryAfter(s, i)
        /\ ToUpper(s[j]) = "SELECT"
        /\ BoundaryBefore(s, j) /\ BoundaryAfter(s, j)

\* C31: validate_sql rejects every statement in which the word UNION is
\* followed later by the word SELECT, in any letter case, also when the two
\* words stand on different lines
C31_UnionSelectRejected ==
    (sanPc # "start" /\ UnionThenSelect(sanIn)) => ~sanOut.ok

\* C32: execute_sql_tool called with dry_run = true never calls the
\* database and returns no data; it applies validate_sql and the dialect
\* validation first and returns their error, not a validated query, for
\* SQL they reject
C32_DryRunValidatesOnly ==
    (sanPc = "tool" /\ sanTool.dry_run) =>
        /\ sanTool.executed = << >>
        /\ ~sanTool.data
        /\ IF ~validate_sql(sanIn).ok
           THEN sanTool.kind = "err" /\ sanTool.err = validate_sql(sanIn).err
           ELSE IF ~validate_for_db_type(validate_sql(sanIn).sql, sanDb).ok
           THEN sanTool.kind = "err"
           ELSE sanTool.kind = "dry" /\ sanTool.sql = validate_sql(sanIn).sql

\* a dry run on a statement the dialect validation rejects returned an error
C32_Witness ==
    /\ sanPc = "tool"
    /\ sanTool.dry_run
    /\ validate_sql(sanIn).ok
    /\ sanTool.kind = "err"
    /\ sanDb = "postgres"

(***************************************************************************)
(* Properties of the Selector                                              *)
(***************************************************************************)

ColumnsOf(table) == {table.columns[k] : k \in 1..Len(table.columns)}

\* the key columns of the table of the full schema that carries the name
KeyColumnsOf(table_name) ==
    UNION { {c \in ColumnsOf(selSchema[i]) : c.is_primary_key \/ c.is_foreign_key} :
              i \in {j \in 1..Len(selSchema) : selSchema[j].name = table_name} }

\* C12: every table of the pruned schema holds every column of its table in
\* the full schema that is a primary key or a foreign key, whatever columns
\* the response listed for it
C12_KeysRetained ==
    (selPc = "done" /\ selOut.ok) =>
        \A i \in 1..Len(selOut.pruned_schema) :
            KeyColumnsOf(selOut.pruned_schema[i].name)
                \subseteq ColumnsOf(selOut.pruned_schema[i])

\* the response listed one column that is no key, and the pruned table holds
\* it together with the two keys of the table, which the response left out
C12_Witness ==
    /\ selPc = "done"
    /\ selOut.ok
    /\ selResponse.tables = <<TableObj("USERS", ColumnArray(<<"name">>))>>
    /\ Len(selOut.pruned_schema) = 1
    /\ Names(selOut.pruned_schema[1].columns) = <<"name", "id", "ref_id">>

\* no table object of the response names a table of the full schema
NothingSelected ==
    \/ selResponse.kind # "json"
    \/ \A i \in 1..Len(selResponse.tables) :
          \/ selResponse.tables[i].name = Missing
          \/ FindTable(selSchema, selResponse.tables[i].name) = 0

\* C13: when the response selects no table, also when it cannot be parsed
\* into the expected structure, the Selector returns Ok with the whole
\* original schema and the names of all its tables
C13_FallbackToFullSchema ==
    (selPc = "done" /\ NothingSelected) =>
        /\ selOut.ok
        /\ selOut.pruned_schema = selSchema
        /\ selOut.selected_tables = Names(selSchema)

\* the table object names a table of the full schema, in any letter case
NamesSchemaTable(table_obj) == FindTable(selSchema, table_obj.name) # 0

\* the table objects of the response that name a table of the full schema
MatchedObjs == SelectSeq(selResponse.tables, NamesSchemaTable)

\* the column names the table object asks for
Requested(table_obj) ==
    IF table_obj.columns.is_array
    THEN {table_obj.columns.items[k] : k \in 1..Len(table_obj.columns.items)}
            \ {JsonNumber}
    ELSE {}

\* the columns the pruned table of a table object is to hold: all columns
\* of the table when no column is asked for, otherwise those whose name is
\* asked for in any letter case, and the keys
ExpectedColumns(full_table, table_obj) ==
    { c \in ColumnsOf(full_table) :
        \/ Requested(table_obj) = {}
        \/ \E n \in Requested(table_obj) : AsciiLower(n) = AsciiLower(c.name)
        \/ c.is_primary_key
        \/ c.is_foreign_key }

\* C27: the pruned schema holds one table for each table object whose name
\* matches a table of the full schema in any letter case, in the order of
\* the response, and nothing for the other table objects; the table carries
\* the name of the schema's table and exactly the expected columns, each once
C27_CaseInsensitiveSelection ==
    (selPc = "done" /\ selOut.ok /\ MatchedObjs # << >>) =>
        /\ Len(selOut.pruned_schema) = Len(MatchedObjs)
        /\ \A k \in 1..Len(MatchedObjs) :
              LET full_table == selSchema[FindTable(selSchema, MatchedObjs[k].name)]
                  pruned == selOut.pruned_schema[k]
              IN /\ pruned.name = full_table.name
                 /\ AsciiLower(pruned.name) = AsciiLower(MatchedObjs[k].name)
                 /\ ColumnsOf(pruned) = ExpectedColumns(full_table, MatchedObjs[k])
                 /\ Cardinality(ColumnsOf(pruned)) = Len(pruned.columns)

\* the response named a table that is not in the schema and, in upper case,
\* one that is, with two of its columns in mixed case; the pruned schema
\* holds that table alone, with these two columns and the foreign key
C27_Witness ==
    /\ selPc = "done"
    /\ selOut.ok
    /\ selResponse.tables = <<TableObj("nosuch", NoColumns),
                              TableObj("USERS", ColumnArray(<<"Name", "id">>))>>
    /\ Len(selSchema[1].columns) = 3
    /\ Len(selOut.pruned_schema) = 1
    /\ selOut.pruned_schema[1].name = "users"
    /\ Names(selOut.pruned_schema[1].columns) = <<"id", "name", "ref_id">>

\* no element stands twice in the sequence s
NoRepeat(s) == \A j, k \in 1..Len(s) : j # k => s[j] # s[k]

\* C37: the pruned schema is a subset of the full schema: every pruned table
\* is a table of the full schema under the name spelled there and stands
\* once, each of its columns is a column of that table and stands once, and
\* selected_tables lists the names of the pruned tables in their order
C37_PrunedIsSubset ==
    (selPc = "done" /\ selOut.ok) =>
        /\ NoRepeat(Names(selOut.pruned_schema))
        /\ selOut.selected_tables = Names(selOut.pruned_schema)
        /\ \A i \in 1..Len(selOut.pruned_schema) :
              LET table == selOut.pruned_schema[i]
              IN /\ \E j \in 1..Len(selSchema) :
                        /\ selSchema[j].name = table.name
                        /\ ColumnsOf(table) \subseteq ColumnsOf(selSchema[j])
                 /\ NoRepeat(table.columns)

(***************************************************************************)
(* Properties of the pool map                                              *)
(***************************************************************************)

\* C38: however concurrent calls of get_pool_postgres (or get_pool_mysql)
\* for one connection id interleave, at most one pool is ever stored for the
\* id and every caller that gets a pool gets that one; the pool of a caller
\* that lost the race is not stored
C38_OnePoolPerConnection ==
    /\ [][\A k \in DOMAIN pools : pools[k] # NoPool => pools'[k] = pools[k]]_vars
    /\ [](\A p \in DOMAIN poolRet :
             poolRet[p].kind = "ok" =>
                /\ pools[poolCall[p]] # NoPool
                /\ poolRet[p].pool = pools[poolCall[p]])

\* two callers of get_pool_postgres both opened a pool; the first stored
\* its pool, and both hold that one
C38_Witness ==
    /\ poolPc # << >>
    /\ poolCall[1] = "postgres" /\ poolCall[2] = "postgres"
    /\ poolLocal[1] = 1 /\ poolLocal[2] = 2
    /\ poolRet[1] = PoolOk(1)
    /\ poolRet[2] = PoolOk(1)
    /\ pools["postgres"] = 1

(***************************************************************************)
(* Properties of the persisted conversation                                *)
(***************************************************************************)

Holds(file, m) == \E i \in 1..Len(file) : file[i] = m

\* every task is through, its agent run succeeded, and its load and its
\* save met no error of the file system
AllSaved ==
    /\ chatTask # << >>
    /\ \A t \in DOMAIN chatTask :
          /\ chatTask[t].pc = "done"
          /\ chatTask[t].result = "ok"
          /\ chatTask[t].loaded
          /\ chatTask[t].saved

\* C39: when the concurrent chat requests of one session have all succeeded,
\* the persisted conversation holds the user message and the answer of each
\* of them
C39_NoExchangeLost ==
    AllSaved =>
        \A t \in DOMAIN chatTask :
            /\ Holds(chatFile, UserMessage(t))
            /\ Holds(chatFile, AssistantMessage(t))

(***************************************************************************)
(* The conversation history in the prompts                                 *)
(***************************************************************************)

\* the entries of the prompt that stem from the history
FoldedEntries ==
    IF histPc = "decomposer" THEN histOut.entries
    ELSE IF histPc = "general"
    THEN SubSeq(histOut.entries, 2, Len(histOut.entries) - 1)
    ELSE << >>

\* the entries are among the last n of the history, in its order, each the
\* first at most c characters of its text
CappedTo(entries, n, c) ==
    /\ Len(entries) <= n
    /\ \A k \in 1..Len(entries) :
          /\ entries[k].content.id \in 1..Len(histIn)
          /\ entries[k].content.id > Len(histIn) - n
          /\ entries[k].content.len <= c
          /\ entries[k].content.len <= histIn[entries[k].content.id].content.len
    /\ \A j, k \in 1..Len(entries) :
          j < k => entries[j].content.id < entries[k].content.id

\* C28: the history folded into a prompt of the fixed pipeline, that of the
\* Decomposer or that of the general question, is at most the last 10
\* entries, in their order, each cut to at most 200 characters
C28_HistoryCapped ==
    histPc \in {"decomposer", "general"} =>
        CappedTo(FoldedEntries, HistoryEntries, HistoryChars)

(***************************************************************************)
(* Properties of the Refiner, the fixed pipeline and the tool loop         *)
(***************************************************************************)

\* the candidate whose execution is in flight
Candidate == IF strategy = "mac" THEN current_sql ELSE Head(pending).query

\* C1: every text handed to execute_query, by try_execute and by
\* execute_sql_tool alike, is what validate_sql returned for the current
\* candidate, and that text passed validate_for_db_type for the dialect of the
\* connection; it goes out under the row cap and the offset of the call
C1_OnlySanitizedSqlExecuted ==
    dbReq # NoDbReq =>
        /\ validate_sql(Candidate).ok
        /\ dbReq.sql = validate_sql(Candidate).sql
        /\ validate_for_db_type(dbReq.sql, dbType).ok
        /\ (strategy = "mac" => rpc = "executing")
        /\ (strategy = "react" => pc = "toolexec")

\* the Refiner executes a corrected candidate, whose sanitized text differs
\* from the candidate
C1_Witness ==
    /\ strategy = "mac"
    /\ rpc = "executing"
    /\ attempts = 2
    /\ dbReq.sql # current_sql
    /\ dbReq.sql = validate_sql(current_sql).sql

\* refine_and_execute has returned the error of a failed last attempt
RefinerGaveUp ==
    /\ rpc = "returned"
    /\ refRet.kind = "err"
    /\ refRet.error # LlmError

\* C2: when every attempt of a sub-query fails and every correction request
\* returns a statement, refine_and_execute makes max_attempts attempts, never
\* more and never fewer, and its error carries that count and the error text
\* of the last attempt
C2_ExactlyMaxAttempts ==
    /\ attempts <= max_attempts
    /\ Len(history) <= max_attempts
    /\ RefinerGaveUp =>
          /\ attempts = max_attempts
          /\ Len(history) = max_attempts
          /\ \A i \in 1..Len(history) : ~history[i].success
          /\ refRet.error.msg = "Query refinement failed"
          /\ refRet.error.attempts = max_attempts
          /\ refRet.error.last = history[max_attempts].error

\* three executions failed at the database and the Refiner gave up
C2_Witness ==
    /\ RefinerGaveUp
    /\ Len(history) = max_attempts
    /\ \A i \in 1..max_attempts : history[i].error = "Database error"
    /\ refRet.error.last = "Database error"

\* refine_and_execute has returned Ok(RefinerResult)
RefinerSucceeded == rpc = "returned" /\ refRet.kind = "ok"

\* C10: the attempt that succeeds ends refine_and_execute: nothing is in
\* flight afterwards, the next step of the run leaves this sub-query, and
\* attempts is the number of the successful attempt, counted from 1 and at most
\* max_attempts
C10_ReturnsOnFirstSuccess ==
    /\ [](RefinerSucceeded =>
            /\ dbReq = NoDbReq
            /\ llmReq = NoLlmReq
            /\ refRet.attempts = Len(history) + 1
            /\ refRet.attempts \in 1..max_attempts
            /\ refRet.final_sql = current_sql)
    /\ [][RefinerSucceeded =>
            \/ pc' = "refine" /\ idx' = idx + 1 /\ attempts' = 1
            \/ pc' # "refine"]_vars

\* the third attempt succeeded after two failed ones
C10_Witness ==
    /\ RefinerSucceeded
    /\ refRet.attempts = max_attempts
    /\ Len(history) = max_attempts - 1

\* the sub-query whose Refiner run just ended
FailedSubQuery == plan[idx + 1]

\* the Refiner has used up its attempts on the sub-query at idx
Exhausted ==
    /\ strategy = "mac"
    /\ pc = "refine"
    /\ RefinerGaveUp

\* the run ended on the sub-query: with the answer that shows its SQL, or
\* with the error of an event that could not be delivered
AbortedOn(sub_query) ==
    /\ pc' = "done"
    /\ \/ outcome'.kind = "err"
       \/ /\ outcome'.kind = "ok"
          /\ outcome'.answer.type = "query_error"
          /\ outcome'.answer.sql = sub_query.sql

\* the run went on past the sub-query, or ended with the final answer made
\* of the collected results
WentOnPast ==
    \/ pc' = "refine" /\ idx' = idx + 1
    \/ pc' = "summarize"
    \/ /\ pc' = "done"
       /\ \/ outcome'.kind = "err"
          \/ /\ outcome'.kind = "ok"
             /\ outcome'.answer.type \in {"no_data", "single"}
             /\ outcome'.answer.results = all_results

\* C7: when the sub-query with order 0, or a sub-query with
\* depends_on_previous, uses up its Refiner attempts, the run aborts: no later
\* sub-query is executed, there is no synthesis, and the answer shows the SQL
\* of the failing sub-query
C7_RequiredFailureAborts ==
    [][(Exhausted /\ (FailedSubQuery.order = 0 \/ FailedSubQuery.depends_on_previous))
          => AbortedOn(FailedSubQuery)]_vars

\* C8: when a sub-query with order >= 1 and without depends_on_previous uses
\* up its Refiner attempts, the run does not abort: the sub-query is skipped,
\* the remaining ones are processed and the final answer is made of the
\* results of the successful ones
C8_IndependentFailureSkipped ==
    [][(Exhausted /\ FailedSubQuery.order >= 1 /\ ~FailedSubQuery.depends_on_previous)
          => WentOnPast]_vars

\* the model calls of the tool loop that were answered with tool calls
RECURSIVE AssistantTurns(_)
AssistantTurns(ms) ==
    IF ms = << >> THEN 0
    ELSE (IF ms[Len(ms)].role = "assistant" THEN 1 ELSE 0)
         + AssistantTurns(SubSeq(ms, 1, Len(ms) - 1))

\* C9: the tool loop calls the model at most max_iterations (5) times; when
\* the fifth response still asks for tool calls, no further call is made and
\* the run ends with an error, never with an answer
C9_IterationCap ==
    /\ iterations <= max_iterations
    /\ AssistantTurns(messages) <= max_iterations
    /\ (llmReq.kind = "tools" =>
           /\ iterations = AssistantTurns(messages) + 1
           /\ AssistantTurns(messages) < max_iterations)
    /\ (AssistantTurns(messages) = max_iterations =>
           /\ llmReq = NoLlmReq
           /\ outcome.kind # "ok"
           /\ pc \in {"calls", "toolexec", "done"}
           /\ (pc = "done" => outcome.kind = "err"))

\* the fifth response asked for tool calls, they were processed, and the run
\* ended with the error of the cap
C9_Witness ==
    /\ strategy = "react"
    /\ AssistantTurns(messages) = max_iterations
    /\ pc = "done"
    /\ pending = << >>
    /\ outcome.error.msg = "Maximum iterations reached without finding answer"

(***************************************************************************)
(* Properties of the error paths of the Refiner and the fixed pipeline     *)
(***************************************************************************)

\* the sanitizer (validate_sql or validate_for_db_type) rejects the candidate
Rejected(sql) == ~try_execute(sql, dbType).ok

\* this step starts an attempt of refine_and_execute: the first one of a
\* sub-query, or the one that follows a correction
AttemptStarts ==
    /\ strategy = "mac"
    /\ pc' = "refine"
    /\ \/ pc # "refine"
       \/ rpc = "returned"
       \/ rpc = "correcting" /\ attempts' = attempts + 1

\* the history and the attempt count the starting attempt builds on
HistoryBefore == IF pc = "refine" /\ rpc = "correcting" THEN history ELSE << >>

AttemptsBefore == IF pc = "refine" /\ rpc = "correcting" THEN attempts ELSE 0

\* C11: when the sanitizer rejects the candidate of attempt n, no request
\* goes to the database for it, the rejection is appended to the history as a
\* failed attempt and counts as attempt n; below max_attempts a correction of
\* the rejected statement is requested and its answer starts attempt n+1, at
\* max_attempts the Refiner gives up as after any failed attempt; a rejected
\* candidate is never in flight to the database
C11_RejectionCountsAsAttempt ==
    /\ [][(AttemptStarts /\ Rejected(current_sql')) =>
            LET e == SecurityError(try_execute(current_sql', dbType).err)
                h == Append(HistoryBefore, RefinementAttempt(current_sql', e))
                n == AttemptsBefore + 1
            IN /\ dbReq' = NoDbReq
               /\ history' = h
               /\ attempts' = n
               /\ IF n < max_attempts
                  THEN /\ rpc' = "correcting"
                       /\ llmReq' = CorrectionRequest(current_sql', e, h)
                  ELSE /\ rpc' = "returned"
                       /\ refRet' = RefinerErr(RefinementFailed(n, e))]_vars
    /\ [][(strategy = "mac" /\ pc = "refine" /\ rpc = "correcting"
           /\ Rejected(history[Len(history)].sql)) =>
            \/ attempts' = attempts + 1 /\ Len(history') >= Len(history)
            \/ rpc' = "returned" /\ refRet' = RefinerErr(LlmError)]_vars
    /\ [](strategy = "mac" /\ dbReq # NoDbReq => ~Rejected(current_sql))

\* the first candidate was rejected for the dialect, a correction was
\* requested, and the second attempt is at the database
C11_Witness ==
    /\ strategy = "mac"
    /\ rpc = "executing"
    /\ attempts = 2
    /\ Len(history) = 1
    /\ Rejected(history[1].sql)
    /\ history[1].error = "PostgreSQL system functions not allowed"

\* C17: final_sql of an Ok(RefinerResult) is the text that went to
\* execute_query in the attempt that succeeded, i.e. the candidate as the
\* sanitizer returned it
C17_FinalSqlIsExecutedText ==
    [][(strategy = "mac" /\ pc = "refine" /\ rpc = "executing"
        /\ rpc' = "returned" /\ refRet'.kind = "ok")
          => refRet'.final_sql = dbReq.sql]_vars

\* the run ended with the answer that reports a failed sub-query
FailureReported ==
    /\ strategy = "mac"
    /\ pc = "done"
    /\ outcome.kind = "ok"
    /\ outcome.answer.type = "query_error"

\* C18: the answer that reports a failed sub-query shows the error of the
\* Refiner and a statement, and when the error is that of a last failed
\* attempt, the statement shown is the one of that attempt
C18_ReportShowsFailingStatement ==
    FailureReported =>
        /\ outcome.answer.sql # << >>
        /\ outcome.answer.error = refRet.error
        /\ (outcome.answer.error.msg = "Query refinement failed" =>
              /\ outcome.answer.error.last = history[Len(history)].error
              /\ outcome.answer.sql = history[Len(history)].sql)

\* this step records an attempt that failed because the connection to the
\* database was not there
ConnectionFailed ==
    /\ strategy = "mac"
    /\ pc = "refine"
    /\ rpc = "executing"
    /\ Len(history') = Len(history) + 1
    /\ history'[Len(history')].error = "Connection not found"

\* this step ends a correction request with a failure of the service
CorrectionServiceFailed ==
    /\ strategy = "mac"
    /\ pc = "refine"
    /\ rpc = "correcting"
    /\ attempts' = attempts
    /\ rpc' # "correcting"

\* C19: when execute_query fails for want of the connection, or the
\* correction request fails at the service, refine_and_execute returns the
\* failure at once: no correction is requested and nothing is executed for
\* the sub-query afterwards
C19_ServiceFailureNotRetried ==
    /\ [][ConnectionFailed =>
            /\ rpc' = "returned"
            /\ refRet'.kind = "err"
            /\ llmReq' = NoLlmReq
            /\ dbReq' = NoDbReq]_vars
    /\ [][CorrectionServiceFailed =>
            /\ rpc' = "returned"
            /\ refRet' = RefinerErr(LlmError)
            /\ llmReq' = NoLlmReq
            /\ dbReq' = NoDbReq]_vars

\* C20: no run of the fixed pipeline ends with the error of an event that
\* could not be delivered
C20_EmitFailureNotFatal ==
    (strategy = "mac" /\ pc = "done") => outcome # RunError(EmitError)

(***************************************************************************)
(* Properties of the Decomposer and of the order of execution              *)
(***************************************************************************)

\* the run is in or past the loop over the sub-queries
PlanInUse ==
    /\ strategy = "mac"
    /\ \/ pc \in {"refine", "summarize"}
       \/ /\ pc = "done"
          /\ outcome.kind = "ok"
          /\ outcome.answer.type \in {"no_data", "single", "summary", "query_error"}

\* C14: parse_decomposer_response returns Err for every response without a
\* "queries" array and for every response whose array yields no sub-query, so
\* each plan it returns, and each plan the loop of run_mac_sql_agent works on,
\* holds at least one sub-query
C14_PlanNeverEmpty ==
    /\ (strategy = "mac" /\ pc = "decompose") =>
          \A r \in DecomposerResponses :
              /\ (r.kind # "json" \/ r.queries = << >>)
                    => ~parse_decomposer_response(r).ok
              /\ parse_decomposer_response(r).ok
                    => Len(parse_decomposer_response(r).queries) >= 1
    /\ PlanInUse => Len(plan) >= 1

\* the response held an empty "queries" array and the run ended with the
\* error of the Decomposer
C14_Witness ==
    /\ strategy = "mac"
    /\ pc = "done"
    /\ outcome.kind = "err"
    /\ outcome.error.msg = "Decomposer generated no queries"
    /\ plan = << >>

\* the statement refine_and_execute was called with
FirstCandidate == IF history # << >> THEN history[1].sql ELSE current_sql

\* C15: the plan is in ascending order of the "order" values whatever place
\* the query objects had in the response, and the loop hands its sub-queries
\* to the Refiner one after the other from the first place on: the Refiner
\* works on the statement at idx, and idx starts at 0 and moves on by one
C15_AscendingOrder ==
    /\ [](strategy = "mac" =>
            \A i, j \in 1..Len(plan) : i < j => plan[i].order <= plan[j].order)
    /\ []((strategy = "mac" /\ pc = "refine") =>
            /\ idx \in 0..(Len(plan) - 1)
            /\ FirstCandidate = plan[idx + 1].sql)
    /\ [][(strategy = "mac" /\ pc' = "refine") =>
            \/ pc = "decompose" /\ idx' = 0
            \/ pc = "refine" /\ idx' \in {idx, idx + 1}]_vars

\* the response held the sub-query with order 1 before the one with order 0;
\* the plan holds them the other way round and the loop has reached the second
C15_Witness ==
    /\ strategy = "mac"
    /\ pc = "refine"
    /\ idx = 1
    /\ Len(plan) = 2
    /\ plan[1].order = 0 /\ plan[1].sql = SubSql("plain", 2)
    /\ plan[2].order = 1 /\ plan[2].sql = SubSql("plain", 1)
    /\ current_sql = SubSql("plain", 1)

\* C29: no two sub-queries of a plan carry the same order value
C29_OrderValuesDistinct ==
    strategy = "mac" =>
        \A i, j \in 1..Len(plan) : i # j => plan[i].order # plan[j].order

(***************************************************************************)
(* The tool loop: final answers and the order of the tool calls            *)
(***************************************************************************)

Last(s) == s[Len(s)]

\* the tool loop has just taken a response with content and no tool call:
\* either it returned, or it logged the response as an assistant turn
ContentWithoutAction ==
    \/ pc = "done"
    \/ /\ messages # << >>
       /\ Last(messages).role = "assistant"
       /\ Last(messages).content # ""
       /\ Last(messages).tool_calls = << >>

\* the run has returned the content with the count of model calls and the
\* statements collected so far, and no request is in flight
StoppedWithAnswer ==
    /\ pc = "done"
    /\ outcome.kind = "ok"
    /\ outcome.answer.type = "content"
    /\ outcome.iterations = iterations
    /\ outcome.sql_queries = sql_queries
    /\ llmReq = NoLlmReq
    /\ dbReq = NoDbReq

\* C24: a response of the tool loop with content and no tool call ends the
\* loop at once: the content is returned with the number of model calls and
\* the SQL collected so far, and no model call or execution follows
C24_ContentOnlyStops ==
    [][(/\ strategy = "react"
        /\ pc = "tools"
        /\ llmReq.kind = "tools"
        /\ \/ outcome'.kind = "ok"
           \/ /\ Len(messages') = Len(messages) + 1
              /\ ContentWithoutAction')
       => StoppedWithAnswer']_vars

\* ids of the execute_sql calls of an assistant turn, in the order given
RECURSIVE ExecuteSqlIds(_)
ExecuteSqlIds(calls) ==
    IF calls = << >> THEN << >>
    ELSE (IF Head(calls).name = "execute_sql" THEN <<Head(calls).id>> ELSE << >>)
         \o ExecuteSqlIds(Tail(calls))

\* position of the last assistant turn of the log, 0 if there is none
RECURSIVE LastAssistant(_)
LastAssistant(ms) ==
    IF ms = << >> THEN 0
    ELSE IF Last(ms).role = "assistant" THEN Len(ms)
    ELSE LastAssistant(SubSeq(ms, 1, Len(ms) - 1))

\* ids of the observations logged after the last assistant turn
ObservedIds ==
    LET a == LastAssistant(messages)
    IN [k \in 1..(Len(messages) - a) |-> messages[a + k].tool_call_id]

\* the tool loop is between two tool calls or inside one
InToolCalls == strategy = "react" /\ pc \in {"calls", "toolexec"}

CallIds(calls) == [k \in 1..Len(calls) |-> calls[k].id]

\* C34: before every model call of the tool loop after the first, each tool
\* call of the preceding assistant message has exactly one tool message with
\* its tool_call_id after that message, also a call that names another tool
\* than execute_sql and a call whose execution failed
C34_EveryCallAnswered ==
    (strategy = "react" /\ llmReq.kind = "tools" /\ LastAssistant(messages) > 0)
    => LET calls == messages[LastAssistant(messages)].tool_calls
       IN /\ Len(ObservedIds) = Len(calls)
          /\ \A k \in 1..Len(calls) :
                \E j \in 1..Len(ObservedIds) : ObservedIds[j] = calls[k].id

\* the number of statements the log reports as executed
RECURSIVE ExecutedCount(_)
ExecutedCount(ms) ==
    IF ms = << >> THEN 0
    ELSE (IF Last(ms).role = "tool" /\ Last(ms).content = "Query executed successfully"
          THEN 1 ELSE 0)
         + ExecutedCount(SubSeq(ms, 1, Len(ms) - 1))

\* C35: every entry of the sql_queries the tool loop returns is a statement
\* that passed the sanitizer and was executed against the database; SQL that
\* was rejected or whose execution failed is not among them
C35_OnlyExecutedSqlReported ==
    (strategy = "react" /\ pc = "done" /\ outcome.kind = "ok"
        /\ outcome.answer.type = "content")
    => /\ \A k \in 1..Len(outcome.sql_queries) :
             ToolCheck(outcome.sql_queries[k], FALSE, dbType).kind = "exec"
       /\ Len(outcome.sql_queries) = ExecutedCount(messages)

(***************************************************************************)
(* The fixed pipeline: bounded work and the order of its stages            *)
(***************************************************************************)

\* C21: a run of the fixed pipeline ends when its external calls return; for
\* a plan of N sub-queries it makes at most 3*N execution attempts and at
\* most 2*N correction requests: no correction is requested after the last
\* failed attempt of a sub-query, and no sub-query is run again
C21_NoUnboundedRetry ==
    /\ [](/\ execution_attempts <= max_attempts * Len(plan)
          /\ correction_requests <= (max_attempts - 1) * Len(plan))
    /\ [](rpc = "correcting" => attempts < max_attempts)
    /\ [][idx' # idx => idx' = idx + 1 /\ idx' < Len(plan)]_vars
    /\ (strategy = "mac" ~> pc = "done")

\* a plan of two sub-queries has used up every attempt and every correction
C21_Witness ==
    /\ strategy = "mac"
    /\ pc = "done"
    /\ Len(plan) = 2
    /\ execution_attempts = max_attempts * Len(plan)
    /\ correction_requests = (max_attempts - 1) * Len(plan)

\* the Refiner is inside a run and waits for exactly what it asked for
RefinerWaits ==
    /\ rpc = "executing" => dbReq # NoDbReq /\ llmReq = NoLlmReq
    /\ rpc = "correcting" => llmReq.kind = "correct" /\ dbReq = NoDbReq
    /\ rpc = "returned" => llmReq = NoLlmReq /\ dbReq = NoDbReq

\* a step that starts the Refiner run of the sub-query at index i
StartsRun(i) ==
    /\ pc' = "refine"
    /\ idx' = i
    /\ i < Len(plan')
    /\ Len(history') <= 1
    /\ attempts' = 1
    /\ current_sql' = plan'[i + 1].sql

\* C26: in a run of the fixed pipeline the Selector has finished before the
\* Decomposer starts, the Decomposer has finished before the first Refiner
\* run starts, the Refiner runs take the sub-queries in plan order one after
\* the other, and inside a Refiner run attempt n+1 starts only when the
\* outcome of attempt n is known
C26_StagesOrdered ==
    /\ [](strategy = "mac" /\ llmReq.kind = "select" =>
             pc = "select" /\ plan = << >> /\ rpc = "idle" /\ dbReq = NoDbReq)
    /\ [](strategy = "mac" /\ llmReq.kind = "decompose" =>
             pc = "decompose" /\ plan = << >> /\ rpc = "idle" /\ dbReq = NoDbReq)
    /\ [][strategy = "mac" /\ pc' = "decompose" /\ pc # "decompose" =>
             pc = "select" /\ llmReq.kind = "select"]_vars
    /\ [](strategy = "mac" /\ rpc \in {"executing", "correcting", "returned"} =>
             /\ pc \in {"refine", "done"}
             /\ rpc # "returned" => pc = "refine"
             /\ plan # << >>
             /\ idx < Len(plan)
             /\ RefinerWaits)
    /\ [][strategy = "mac" /\ pc' = "refine" /\ pc # "refine" =>
             /\ pc = "decompose"
             /\ llmReq.kind = "decompose"
             /\ StartsRun(0)]_vars
    /\ [][strategy = "mac" /\ pc = "refine" /\ pc' = "refine" =>
             \/ /\ rpc = "returned"
                /\ StartsRun(idx + 1)
                /\ plan' = plan
             \/ /\ rpc # "returned"
                /\ idx' = idx
                /\ plan' = plan
                /\ attempts' # attempts =>
                      /\ attempts' = attempts + 1
                      /\ rpc = "correcting"
                      /\ dbReq = NoDbReq
                      /\ Len(history) = attempts]_vars

\* the second sub-query of the plan is at its second attempt
C26_Witness ==
    /\ strategy = "mac"
    /\ pc = "refine"
    /\ idx = 1
    /\ attempts = 2
    /\ rpc = "executing"
    /\ Len(all_sql) = 1

\* the for loop goes on from a sub-query that failed and was skipped
SkipsFailed ==
    /\ strategy = "mac"
    /\ pc = "refine"
    /\ rpc = "returned"
    /\ refRet.kind = "err"
    /\ pc' = "refine"
    /\ idx' = idx + 1

\* C33: a sub-query with depends_on_previous = true is never executed when
\* the sub-query immediately before it in the plan failed and was skipped
C33_DependentNotRunAfterSkip ==
    [][SkipsFailed => ~plan[idx' + 1].depends_on_previous]_vars

\* the run has reached generate_final_answer: it waits for the summary or
\* has returned the answer made there
SynthesisReached ==
    /\ strategy = "mac"
    /\ \/ pc = "summarize"
       \/ /\ pc = "done"
          /\ outcome.kind = "ok"
          /\ outcome.answer.type \in {"no_data", "single", "summary"}

====
